---- MODULE Spec2Model ----
(***************************************************************************)
(* State-machine model of the boundary-condition and ID-coordination core  *)
(* of the press-forming deck generator:                                    *)
(*   - ToolConditionManager  (src/src/core/boundaries/motion.py)           *)
(*   - curve generators      (src/src/core/curves/generators.py)           *)
(*   - Direction / Axis      (src/src/core/common/direction.py)            *)
(*   - IDManager             (src/src/core/export/id_manager.py)           *)
(*                                                                         *)
(* Numbers: physical values (curve ordinates, thresholds) and times are    *)
(* fixed-point integers in thousandths.  The cosine ramps are sampled at   *)
(* the four abscissae 0, T/3, 2T/3, T, where the cosine is rational.       *)
(* Optional[...] fields are sequences: None is <<>>, a value x is <<x>>.   *)
(* Python strings that the code takes apart are sequences of characters.   *)
(***************************************************************************)
EXTENDS Integers, Sequences, FiniteSets, TLC

VARIABLES
    curve_id_counter,      \* ToolConditionManager.curve_id_counter
    leader_curves,         \* ToolConditionManager.leader_curves      (dict part -> curve)
    leader_motion_data,    \* ToolConditionManager.leader_motion_data (dict part -> data)
    issued,                \* history: every value returned by _get_next_curve_id
    last,                  \* the last create_tool_condition call: config and outcome
    set_pc,                \* create_tool_set_conditions: "idle" | "loop" | "returned" | "raised"
    tool_configs,          \* its argument
    sorted_configs,        \* its local sorted_configs
    set_idx,               \* number of configs of sorted_configs already processed
    results,               \* its local results (dict tool_name -> result)
    set_log,               \* history: per processed config, the curve IDs it consumed
    _workpiece_pid_counter,     \* IDManager._workpiece_pid_counter
    _tool_pid_base,             \* IDManager._tool_pid_base
    _mid_counter,               \* IDManager._mid_counter
    _rigid_mid_counter,         \* IDManager._rigid_mid_counter
    _part_to_material,          \* IDManager._part_to_material (dict PID -> MID)
    _part_to_section,           \* IDManager._part_to_section  (dict PID -> SECID)
    _material_preset_to_mid,    \* IDManager._material_preset_to_mid (dict key -> MID)
    _rigid_constraint_to_mid,   \* IDManager._rigid_constraint_to_mid (dict key -> MID)
    id_last,               \* the last IDManager call: operation, arguments, return value
    alloc_hist,            \* history: per allocator and key, the IDs and is-new flags returned
    pid_prev,              \* history: the get_tool_pid call before the last one
    pid_calls,             \* history: the number of get_tool_pid calls made
    fn_call,               \* the last call of a library function: name, arguments, result
    Directions_attrs,      \* the attributes of the class Directions (dict name -> value)
    attr_last,             \* the last attribute statement on Directions and its outcome
    attr_ops,              \* history: the number of attribute statements made
    steps,                 \* AnalysisConfig.steps (list of StepConfig)
    symmetry_planes,       \* AnalysisConfig.symmetry_planes (list of SymmetryPlane)
    uuid_counter,          \* the number of IDs uuid.uuid4() has produced
    an_last                \* the last AnalysisConfig call: arguments, return value, fields before

id_vars == <<_workpiece_pid_counter, _tool_pid_base, _mid_counter, _rigid_mid_counter,
             _part_to_material, _part_to_section, _material_preset_to_mid,
             _rigid_constraint_to_mid, id_last, alloc_hist, pid_prev, pid_calls>>

lib_vars == <<fn_call, Directions_attrs, attr_last, attr_ops>>

an_vars == <<steps, symmetry_planes, uuid_counter, an_last>>

mgr_vars == <<curve_id_counter, leader_curves, leader_motion_data, issued, last,
              set_pc, tool_configs, sorted_configs, set_idx, results, set_log>>

----------------------------------------------------------------------------
(* Bounds of the model *)

\* most attribute statements made on the class Directions
MaxAttrOps == 2
\* largest number of steps of a project handed to DeckGenerator.generate
MaxDeckSteps == 2
\* most IDs uuid.uuid4() produces for steps and symmetry planes
MaxUuids == 4
\* largest num_pts handed to generate_half_cosine_curve
MaxNumPts == 6
\* longest string handed to Direction.from_string
MaxStringLen == 3
\* most samples of a reference curve handed to create_threshold_following_curve
MaxSamples == 4
\* a call starts only while fewer than MaxCurveIds curve IDs were consumed
MaxCurveIds == 2
\* longest list handed to create_tool_set_conditions
MaxListLen == 2
\* an IDManager allocation starts only while fewer than MaxAllocs IDs of its counter are used
MaxAllocs == 3
\* number of get_tool_pid calls of one run
MaxPidCalls == 2
\* largest step_order handed to get_tool_pid
MaxStepOrder == 2
\* largest tool_index handed to get_tool_pid (99 tools per step)
MaxToolIndex == 98
\* tool indices taken at each end of the range 0..MaxToolIndex
MaxEdgeTools == 11

----------------------------------------------------------------------------
(* Generic helpers *)

None == <<>>
Some(x) == <<x>>
Val(o) == o[1]

Milli(x) == x * 1000

EmptyDict == <<>>

\* Python dict assignment d[k] = v
DictSet(d, k, v) == (k :> v) @@ d

\* Python dict.update
DictUpdate(d, e) == e @@ d

Range(s) == {s[i] : i \in 1..Len(s)}

----------------------------------------------------------------------------
(* Direction / Axis *)

IsSpace(c) == c \in {" ", "\t", "\n"}

RECURSIVE lstrip(_)
lstrip(s) == IF s # <<>> /\ IsSpace(Head(s)) THEN lstrip(Tail(s)) ELSE s

RECURSIVE rstrip(_)
rstrip(s) ==
    IF s # <<>> /\ IsSpace(s[Len(s)]) THEN rstrip(SubSeq(s, 1, Len(s) - 1)) ELSE s

strip(s) == rstrip(lstrip(s))

\* str.lower() on one character (the letters that occur in the model's strings)
lower(c) ==
    CASE c = "X" -> "x"
      [] c = "Y" -> "y"
      [] c = "Z" -> "z"
      [] c = "T" -> "t"
      [] OTHER -> c

AxisValues == {"x", "y", "z"}

Axis_dof_number(axis) ==
    CASE axis = "x" -> 1
      [] axis = "y" -> 2
      [] axis = "z" -> 3

Sign_multiplier(sign) == sign

Direction_dof_number(d) == Axis_dof_number(d.axis)

Direction_scale_factor(d) == Sign_multiplier(d.sign)

ParseError == [ok |-> FALSE, axis |-> "", sign |-> 0]

\* mutant: the axis character is compared as it is (no lower())
from_string_case_sensitive(direction_str) ==
    LET d == strip(direction_str) IN
    IF Len(d) # 2 THEN ParseError
    ELSE IF d[1] \notin {"+", "-"} THEN ParseError
    ELSE IF d[2] \notin AxisValues THEN ParseError
    ELSE [ok |-> TRUE, axis |-> d[2], sign |-> IF d[1] = "+" THEN 1 ELSE -1]

from_string(direction_str) ==
    LET d == strip(direction_str) IN
    IF Len(d) # 2 THEN ParseError
    ELSE LET sign_char == d[1]
             axis_char == lower(d[2])
         IN  IF sign_char \notin {"+", "-"} THEN ParseError
             ELSE IF axis_char \notin AxisValues THEN ParseError
             ELSE [ok |-> TRUE, axis |-> axis_char,
                   sign |-> IF sign_char = "+" THEN 1 ELSE -1]

\* str.upper() on one character (the axis values)
upper(c) ==
    CASE c = "x" -> "X"
      [] c = "y" -> "Y"
      [] c = "z" -> "Z"
      [] OTHER -> c

\* mutant: the axis letter is written before the sign
Direction_str_axis_first(d) == <<upper(d.axis), IF d.sign = 1 THEN "+" ELSE "-">>

\* Direction.__str__
Direction_str(d) == <<IF d.sign = 1 THEN "+" ELSE "-", upper(d.axis)>>

\* a value of type str, as against a Direction object
Str(s) == [type |-> "str", value |-> s]

\* a Direction object
Direction(axis, sign) == [type |-> "Direction", axis |-> axis, sign |-> sign]

\* isinstance(dof, Direction), else Direction.from_string(dof)
_resolve_direction(dof) ==
    IF dof.type = "Direction"
    THEN [ok |-> TRUE, axis |-> dof.axis, sign |-> dof.sign]
    ELSE from_string(dof.value)

\* Axis(limit_direction.lower().strip())
_resolve_axis(limit_direction) ==
    LET a == strip([i \in 1..Len(limit_direction) |-> lower(limit_direction[i])]) IN
    IF Len(a) = 1 /\ a[1] \in AxisValues
    THEN [ok |-> TRUE, axis |-> a[1]]
    ELSE [ok |-> FALSE, axis |-> ""]

\* str.replace('+', '').replace('-', '')
RECURSIVE strip_signs(_)
strip_signs(s) ==
    IF s = <<>> THEN <<>>
    ELSE IF Head(s) \in {"+", "-"} THEN strip_signs(Tail(s))
    ELSE <<Head(s)>> \o strip_signs(Tail(s))

----------------------------------------------------------------------------
(* Waveform generator (values in thousandths, times in milliseconds) *)

\* np.pi, in thousandths
PiMilli == 3142
\* default hold_time = 10.0 of the curve generators
DefaultHoldMilli == 10000
\* default ramp_time = 0.02 of create_preload_curve
PreloadRampMilli == 20

\* 0.5 * (1 - cos(pi * k/3)), k = 0..3
HalfCosineTable == <<0, 250, 750, 1000>>
\* sin(pi * k/3), k = 0..3
HalfSineTable == <<0, 866, 866, 0>>
\* 0.5 * (1 - cos(2 * pi * k/3)), k = 0..3
FullCosineTable == <<0, 750, 750, 0>>
\* sin(2 * pi * k/3), k = 0..3
FullSineTable == <<0, 866, -866, 0>>

\* np.linspace(0.0, stop, num_pts) at the sampled indices
linspace(stop) == [k \in 1..Len(HalfCosineTable) |-> ((k - 1) * stop) \div (Len(HalfCosineTable) - 1)]

generate_half_cosine_curve(ramp_time, hold_time) ==
    [t |-> linspace(ramp_time) \o <<ramp_time, ramp_time + hold_time>>,
     y |-> HalfCosineTable \o <<1000, 1000>>]

\* 0.5 * (1 - cos(pi * deg/180)) at the angles pi * k/(num_pts - 1), num_pts <= 7
HalfCosineDeg(deg) ==
    CASE deg = 0 -> 0
      [] deg = 30 -> 67
      [] deg = 36 -> 95
      [] deg = 45 -> 146
      [] deg = 60 -> 250
      [] deg = 72 -> 345
      [] deg = 90 -> 500
      [] deg = 108 -> 655
      [] deg = 120 -> 750
      [] deg = 135 -> 854
      [] deg = 144 -> 905
      [] deg = 150 -> 933
      [] deg = 180 -> 1000

\* np.linspace(0.0, stop, num_pts), num_pts >= 2
linspace_num_pts(stop, num_pts) ==
    [k \in 1..num_pts |-> ((k - 1) * stop) \div (num_pts - 1)]

\* mutant: the hold ends at hold_time instead of ramp_time + hold_time
generate_half_cosine_curve_hold_from_zero(ramp_time, hold_time, num_pts) ==
    LET t_ramp == linspace_num_pts(ramp_time, num_pts)
        y_ramp == [k \in 1..num_pts |-> HalfCosineDeg((180 * (k - 1)) \div (num_pts - 1))]
    IN  [t |-> t_ramp \o <<ramp_time, hold_time>>,
         y |-> y_ramp \o <<1000, 1000>>]

\* generate_half_cosine_curve with every one of its num_pts samples
generate_half_cosine_curve_num_pts(ramp_time, hold_time, num_pts) ==
    LET t_ramp == linspace_num_pts(ramp_time, num_pts)
        y_ramp == [k \in 1..num_pts |-> HalfCosineDeg((180 * (k - 1)) \div (num_pts - 1))]
    IN  [t |-> t_ramp \o <<ramp_time, ramp_time + hold_time>>,
         y |-> y_ramp \o <<1000, 1000>>]

generate_half_cosine_derivative_curve(ramp_time, hold_time) ==
    [t |-> linspace(ramp_time) \o <<ramp_time, ramp_time + hold_time>>,
     y |-> [k \in 1..Len(HalfSineTable) |-> (PiMilli * HalfSineTable[k]) \div (2 * ramp_time)]
           \o <<0, 0>>]

generate_full_cosine_curve(cycle_time, hold_time) ==
    [t |-> linspace(cycle_time) \o <<cycle_time, cycle_time + hold_time>>,
     y |-> FullCosineTable \o <<0, 0>>]

generate_full_cosine_derivative_curve(cycle_time, hold_time) ==
    [t |-> linspace(cycle_time) \o <<cycle_time, cycle_time + hold_time>>,
     y |-> [k \in 1..Len(FullSineTable) |-> (PiMilli * FullSineTable[k]) \div cycle_time]
           \o <<0, 0>>]

----------------------------------------------------------------------------
(* Curve builder: a curve is [lcid, sidr, a1, o1] (DefineCurve) *)

\* nan: the indices whose abscissa is a floating-point NaN
DefineCurve(lcid, sidr, a1, o1) ==
    [lcid |-> lcid, sidr |-> sidr, a1 |-> a1, o1 |-> o1, nan |-> {}]

\* y * sfo on fixed-point values
Scale(y, sfo) == [k \in 1..Len(y) |-> (y[k] * sfo) \div 1000]

create_preload_curve(lcid) ==
    LET w == generate_half_cosine_curve(PreloadRampMilli, DefaultHoldMilli)
    IN  DefineCurve(lcid, 2, w.t, w.y)

\* [ok, error, curve]; sfo = None models the TypeError of y * None
create_stroke_curve(lcid, ramp_time, sfo, curve_type, stroke_mode) ==
    LET NoCurve == DefineCurve(lcid, 0, <<>>, <<>>) IN
    IF curve_type \notin {"displacement", "velocity"}
    THEN [ok |-> FALSE, error |-> "config_error", curve |-> NoCurve]
    ELSE IF stroke_mode \notin {"forward_only", "reciprocating"}
    THEN [ok |-> FALSE, error |-> "config_error", curve |-> NoCurve]
    ELSE LET w == IF stroke_mode = "forward_only"
                  THEN IF curve_type = "displacement"
                       THEN generate_half_cosine_curve(ramp_time, DefaultHoldMilli)
                       ELSE generate_half_cosine_derivative_curve(ramp_time, DefaultHoldMilli)
                  ELSE IF curve_type = "displacement"
                       THEN generate_full_cosine_curve(ramp_time, DefaultHoldMilli)
                       ELSE generate_full_cosine_derivative_curve(ramp_time, DefaultHoldMilli)
         IN  IF sfo = None
             THEN [ok |-> FALSE, error |-> "type_error", curve |-> NoCurve]
             ELSE [ok |-> TRUE, error |-> "",
                   curve |-> DefineCurve(lcid, 0, w.t, Scale(w.y, Val(sfo)))]

\* the abscissa 1e21 of a constant curve
TimeInfinity == 10^9

create_constant_curve(lcid, sfo) ==
    DefineCurve(lcid, 0, <<0, TimeInfinity>>, <<sfo, sfo>>)

\* index of the first segment [i, i+1] with y[i] <= threshold <= y[i+1]; 0 if none
FirstBracket(y_ref, threshold) ==
    LET I == {i \in 1..(Len(y_ref) - 1) : y_ref[i] <= threshold /\ threshold <= y_ref[i + 1]}
    IN  IF I = {} THEN 0 ELSE CHOOSE i \in I : \A j \in I : i <= j

\* the switching time: [found, nan, t_sw]; nan is the 0/0 of a flat bracketing segment
SwitchTime(t_ref, y_ref, threshold) ==
    LET i == FirstBracket(y_ref, threshold) IN
    IF i = 0 THEN [found |-> FALSE, nan |-> FALSE, t_sw |-> 0]
    ELSE IF y_ref[i + 1] = y_ref[i] THEN [found |-> TRUE, nan |-> TRUE, t_sw |-> 0]
    ELSE [found |-> TRUE, nan |-> FALSE,
          t_sw |-> t_ref[i] + ((threshold - y_ref[i]) * (t_ref[i + 1] - t_ref[i]))
                              \div (y_ref[i + 1] - y_ref[i])]

\* insertion of one (t, y) point into a list of points sorted by t (after equal times)
RECURSIVE InsertSorted(_, _)
InsertSorted(pts, p) ==
    IF pts = <<>> THEN <<p>>
    ELSE IF p.nan \/ (~Head(pts).nan /\ Head(pts).t <= p.t)
         THEN <<Head(pts)>> \o InsertSorted(Tail(pts), p)
         ELSE <<p>> \o pts

\* DataFrame.sort_values("a1"): NaN last
RECURSIVE sort_values(_)
sort_values(pts) ==
    IF pts = <<>> THEN <<>>
    ELSE InsertSorted(sort_values(SubSeq(pts, 1, Len(pts) - 1)), pts[Len(pts)])

\* list.insert(-n, p): before the last n elements, at the front when n = 0
InsertFromEnd(pts, n, p) ==
    IF n = 0 THEN <<p>> \o pts
    ELSE LET k == IF n >= Len(pts) THEN 0 ELSE Len(pts) - n
         IN  SubSeq(pts, 1, k) \o <<p>> \o SubSeq(pts, k + 1, Len(pts))

\* [ok, error, curve]; a NaN abscissa is kept as the point's nan flag
create_threshold_following_curve(lcid, threshold_displacement, reference_curve_data) ==
    LET t_ref == reference_curve_data.a1
        y_ref == reference_curve_data.o1
        sw == SwitchTime(t_ref, y_ref, threshold_displacement)
    IN  IF ~sw.found
        THEN [ok |-> FALSE, error |-> "threshold_error", curve |-> DefineCurve(lcid, 0, <<>>, <<>>)]
        ELSE LET pts == [k \in 1..Len(t_ref) |->
                            IF ~sw.nan /\ t_ref[k] <= sw.t_sw
                            THEN [t |-> t_ref[k], y |-> 0, nan |-> FALSE]
                            ELSE [t |-> t_ref[k], y |-> y_ref[k] - threshold_displacement,
                                  nan |-> FALSE]]
                 after == Cardinality({k \in 1..Len(t_ref) : ~sw.nan /\ t_ref[k] > sw.t_sw})
                 present == ~sw.nan /\ \E k \in 1..Len(t_ref) : t_ref[k] = sw.t_sw
                 all == IF present THEN pts
                        ELSE InsertFromEnd(pts, after, [t |-> sw.t_sw, y |-> 0, nan |-> sw.nan])
                 srt == sort_values(all)
             IN  [ok |-> TRUE, error |-> "",
                  curve |-> [DefineCurve(lcid, 0,
                                         [k \in 1..Len(srt) |-> srt[k].t],
                                         [k \in 1..Len(srt) |-> srt[k].y])
                             EXCEPT !.nan = {k \in 1..Len(srt) : srt[k].nan}]]

----------------------------------------------------------------------------
(* Boundary-condition keyword factories: each returns [ok, error, kw] *)

NoKeyword == [kw |-> "none"]

create_rigid_preload(pid, lcid, sf, dof) ==
    IF sf = None THEN [ok |-> FALSE, error |-> "type_error", kw |-> NoKeyword]
    ELSE IF Val(sf) <= 0 THEN [ok |-> FALSE, error |-> "value_error", kw |-> NoKeyword]
    ELSE LET direction == _resolve_direction(dof) IN
         IF ~direction.ok THEN [ok |-> FALSE, error |-> "parse_error", kw |-> NoKeyword]
         ELSE [ok |-> TRUE, error |-> "",
               kw |-> [kw |-> "LoadRigidBody", pid |-> pid, lcid |-> lcid,
                       dof |-> Direction_dof_number(direction),
                       sf |-> Val(sf) * Direction_scale_factor(direction)]]

create_stroke_condition(pid, lcid, dof, sf, vad) ==
    IF sf <= 0 THEN [ok |-> FALSE, error |-> "value_error", kw |-> NoKeyword]
    ELSE LET direction == _resolve_direction(dof) IN
         IF ~direction.ok THEN [ok |-> FALSE, error |-> "parse_error", kw |-> NoKeyword]
         ELSE IF vad \notin {0, 1, 2}
         THEN [ok |-> FALSE, error |-> "value_error", kw |-> NoKeyword]
         ELSE [ok |-> TRUE, error |-> "",
               kw |-> [kw |-> "BoundaryPrescribedMotion", pid |-> pid, lcid |-> lcid,
                       dof |-> Direction_dof_number(direction),
                       sf |-> sf * Direction_scale_factor(direction), vad |-> vad]]

\* mutant: the minimum refers to the curve of the maximum
create_limit_condition_min_as_max(pid, limit_direction, lcid_max, lcid_min, lcid_velocity_limit) ==
    LET axis == _resolve_axis(limit_direction) IN
    IF ~axis.ok THEN [ok |-> FALSE, error |-> "parse_error", kw |-> NoKeyword]
    ELSE [ok |-> TRUE, error |-> "",
          kw |-> [kw |-> "ConstrainedRigidBodyStoppers", pid |-> pid,
                  lcmax |-> -lcid_max, lcmin |-> -lcid_max,
                  lcvmx |-> lcid_velocity_limit, dir |-> Axis_dof_number(axis.axis)]]

\* lcid_velocity_limit is Optional
create_limit_condition(pid, limit_direction, lcid_max, lcid_min, lcid_velocity_limit) ==
    LET axis == _resolve_axis(limit_direction) IN
    IF ~axis.ok THEN [ok |-> FALSE, error |-> "parse_error", kw |-> NoKeyword]
    ELSE [ok |-> TRUE, error |-> "",
          kw |-> [kw |-> "ConstrainedRigidBodyStoppers", pid |-> pid,
                  lcmax |-> -lcid_max, lcmin |-> -lcid_min,
                  lcvmx |-> lcid_velocity_limit, dir |-> Axis_dof_number(axis.axis)]]

----------------------------------------------------------------------------
(* ToolConditionManager.  self is the record of the manager's fields       *)
(* [curve_id_counter, leader_curves, leader_motion_data, issued]; a method *)
(* returns [self, outcome, result], outcome = "ok" or the error raised,    *)
(* self being the manager's fields when the method returned or raised.     *)

\* ToolConditionManager.__init__: self.curve_id_counter = 9000
BaseCurveId == 9000
\* global_config["motion_time"] handed to the manager by the deck generator
GlobalMotionTimeMilli == 1000

EmptyResult == [curves |-> EmptyDict, conditions |-> EmptyDict]

Raise(self, error) == [self |-> self, outcome |-> error, result |-> EmptyResult]

Return(self, result) == [self |-> self, outcome |-> "ok", result |-> result]

Abs(x) == IF x < 0 THEN -x ELSE x

\* mutant: the counter is returned without being incremented
_get_next_curve_id_no_increment(self) ==
    [self EXCEPT !.issued = Append(@, self.curve_id_counter)]

\* the counter after the increment is the ID returned
_get_next_curve_id(self) ==
    [self EXCEPT !.curve_id_counter = @ + 1,
                 !.issued = Append(@, self.curve_id_counter + 1)]

\* config.motion_time or self.global_config.get("motion_time", 0.5)
MotionTimeOrDefault(config) ==
    IF config.motion_time = None \/ Val(config.motion_time) = 0
    THEN GlobalMotionTimeMilli
    ELSE Val(config.motion_time)

\* mutant: the global default is recorded whatever the config's motion_time
_store_leader_motion_data_global_time(self, config) ==
    IF config.motion_control_type \in {"displacement", "velocity"}
    THEN [self EXCEPT !.leader_motion_data =
              DictSet(@, config.part_id,
                      [type |-> config.motion_control_type,
                       amount |-> IF config.motion_control_type = "displacement"
                                  THEN config.displacement_amount
                                  ELSE config.velocity_amount,
                       motion_time |-> GlobalMotionTimeMilli])]
    ELSE self

_store_leader_motion_data(self, config) ==
    IF config.motion_control_type = "displacement"
    THEN [self EXCEPT !.leader_motion_data =
              DictSet(@, config.part_id,
                      [type |-> "displacement", amount |-> config.displacement_amount,
                       motion_time |-> MotionTimeOrDefault(config)])]
    ELSE IF config.motion_control_type = "velocity"
    THEN [self EXCEPT !.leader_motion_data =
              DictSet(@, config.part_id,
                      [type |-> "velocity", amount |-> config.velocity_amount,
                       motion_time |-> MotionTimeOrDefault(config)])]
    ELSE self

\* mutant: the sign of the leader's amount is kept (no abs)
_calculate_velocity_limit_from_leader_signed(self, velocity_config) ==
    LET leader_id == velocity_config.leader_part_id IN
    IF leader_id \notin DOMAIN self.leader_motion_data
    THEN [ok |-> FALSE, error |-> "dependency_error", value |-> 0]
    ELSE LET leader_data == self.leader_motion_data[leader_id] IN
         IF leader_data.type = "displacement"
         THEN [ok |-> TRUE, error |-> "",
               value |-> (((PiMilli * Val(leader_data.amount))
                              \div (2 * leader_data.motion_time))
                          * velocity_config.limit_multiplier) \div 1000]
         ELSE [ok |-> TRUE, error |-> "",
               value |-> (Val(leader_data.amount) * velocity_config.limit_multiplier)
                         \div 1000]

\* [ok, error, value]
_calculate_velocity_limit_from_leader(self, velocity_config) ==
    LET leader_id == velocity_config.leader_part_id IN
    IF leader_id \notin DOMAIN self.leader_motion_data
    THEN [ok |-> FALSE, error |-> "dependency_error", value |-> 0]
    ELSE LET leader_data == self.leader_motion_data[leader_id] IN
         IF leader_data.type = "displacement"
         THEN [ok |-> TRUE, error |-> "",
               value |-> (Abs((PiMilli * Val(leader_data.amount))
                                 \div (2 * leader_data.motion_time))
                          * velocity_config.limit_multiplier) \div 1000]
         ELSE IF leader_data.type = "velocity"
         THEN [ok |-> TRUE, error |-> "",
               value |-> (Abs(Val(leader_data.amount)) * velocity_config.limit_multiplier)
                         \div 1000]
         ELSE [ok |-> FALSE, error |-> "config_error", value |-> 0]

_create_displacement_control(self, config) ==
    LET s1 == _get_next_curve_id(self)
        curve_id == s1.curve_id_counter
        sc == create_stroke_curve(curve_id, MotionTimeOrDefault(config),
                                  config.displacement_amount, "displacement",
                                  config.stroke_mode)
    IN  IF ~sc.ok THEN Raise(s1, sc.error)
        ELSE LET s2 == [s1 EXCEPT !.leader_curves = DictSet(@, config.part_id, sc.curve)]
                 s3 == _store_leader_motion_data(s2, config)
                 condition == create_stroke_condition(config.part_id, curve_id,
                                                      config.direction, 1, 2)
             IN  IF ~condition.ok THEN Raise(s3, condition.error)
                 ELSE Return(s3, [curves |-> ("displacement" :> sc.curve),
                                  conditions |-> ("motion" :> condition.kw)])

_create_velocity_control(self, config) ==
    LET s1 == _get_next_curve_id(self)
        curve_id == s1.curve_id_counter
        sc == create_stroke_curve(curve_id, MotionTimeOrDefault(config),
                                  config.velocity_amount, "velocity",
                                  config.stroke_mode)
    IN  IF ~sc.ok THEN Raise(s1, sc.error)
        ELSE LET s2 == [s1 EXCEPT !.leader_curves = DictSet(@, config.part_id, sc.curve)]
                 s3 == _store_leader_motion_data(s2, config)
                 condition == create_stroke_condition(config.part_id, curve_id,
                                                      config.direction, 1, 0)
             IN  IF ~condition.ok THEN Raise(s3, condition.error)
                 ELSE Return(s3, [curves |-> ("velocity" :> sc.curve),
                                  conditions |-> ("motion" :> condition.kw)])

\* [self, outcome, curves, limit_condition]
_create_position_limits(self, config) ==
    LET limits == Val(config.position_limits)
        s1 == _get_next_curve_id(self)
        max_curve_id == s1.curve_id_counter
        max_curve == create_constant_curve(max_curve_id, limits.max_position)
        s2 == _get_next_curve_id(s1)
        min_curve_id == s2.curve_id_counter
        min_curve == create_constant_curve(min_curve_id, limits.min_position)
        curves2 == ("limit_max" :> max_curve) @@ ("limit_min" :> min_curve)
        Fail(s, e) == [self |-> s, outcome |-> e, curves |-> EmptyDict,
                       limit_condition |-> NoKeyword]
        Finish(s, curves, lcid_velocity_limit) ==
            \* config.direction.replace(...): a Direction object has no replace
            IF config.direction.type # "str" THEN Fail(s, "attribute_error")
            ELSE
            LET limit_direction == strip_signs(config.direction.value)
                lc == create_limit_condition(config.part_id, limit_direction,
                                             max_curve_id, min_curve_id, lcid_velocity_limit)
            IN  IF ~lc.ok THEN Fail(s, lc.error)
                ELSE [self |-> s, outcome |-> "ok", curves |-> curves,
                      limit_condition |-> lc.kw]
    IN  IF config.velocity_limit_config # None
        THEN LET s3 == _get_next_curve_id(s2)
                 velocity_limit_curve_id == s3.curve_id_counter
                 vl == _calculate_velocity_limit_from_leader(
                           s3, Val(config.velocity_limit_config))
             IN  IF ~vl.ok THEN Fail(s3, vl.error)
                 ELSE LET vc == create_stroke_curve(velocity_limit_curve_id,
                                                    GlobalMotionTimeMilli, Some(vl.value),
                                                    "velocity", "forward_only")
                      IN  IF ~vc.ok THEN Fail(s3, vc.error)
                          ELSE Finish(s3, DictSet(curves2, "velocity_limit", vc.curve),
                                      Some(velocity_limit_curve_id))
        ELSE Finish(s2, curves2, None)

\* mutant: the preload curve is registered as a leader curve of the part
_create_load_application_condition_registers(self, config) ==
    LET s1 == _get_next_curve_id(self)
        preload_curve == create_preload_curve(s1.curve_id_counter)
        load_condition == create_rigid_preload(config.part_id, s1.curve_id_counter,
                                               config.load_amount, config.direction)
        s2 == [s1 EXCEPT !.leader_curves = DictSet(@, config.part_id, preload_curve)]
    IN  IF ~load_condition.ok THEN Raise(s1, load_condition.error)
        ELSE Return(s2, [curves |-> ("preload" :> preload_curve),
                         conditions |-> ("load" :> load_condition.kw)])

_create_load_application_condition(self, config) ==
    LET s1 == _get_next_curve_id(self)
        preload_curve_id == s1.curve_id_counter
        preload_curve == create_preload_curve(preload_curve_id)
        load_condition == create_rigid_preload(config.part_id, preload_curve_id,
                                               config.load_amount, config.direction)
    IN  IF ~load_condition.ok THEN Raise(s1, load_condition.error)
        ELSE IF config.position_limits # None
        THEN LET pl == _create_position_limits(s1, config) IN
             IF pl.outcome # "ok" THEN Raise(pl.self, pl.outcome)
             ELSE Return(pl.self,
                         [curves |-> DictUpdate("preload" :> preload_curve, pl.curves),
                          conditions |-> ("load" :> load_condition.kw)
                                         @@ ("limits" :> pl.limit_condition)])
        ELSE Return(s1, [curves |-> ("preload" :> preload_curve),
                         conditions |-> ("load" :> load_condition.kw)])

\* [ok, error, curve]
_create_velocity_following_curve(lcid, threshold_displacement, reference_curve_data) ==
    LET t_ref == reference_curve_data.a1
        y_ref == reference_curve_data.o1
        sw == SwitchTime(t_ref, y_ref, threshold_displacement)
        Point(i) ==
            IF ~sw.nan /\ t_ref[i] <= sw.t_sw THEN <<[t |-> t_ref[i], v |-> 0]>>
            ELSE IF i > 1
            THEN LET dt == t_ref[i] - t_ref[i - 1]
                     dy == y_ref[i] - y_ref[i - 1]
                 IN  <<[t |-> t_ref[i], v |-> IF dt > 0 THEN (dy * 1000) \div dt ELSE 0]>>
            ELSE <<>>
        RECURSIVE Points(_)
        Points(i) == IF i > Len(t_ref) THEN <<>> ELSE Point(i) \o Points(i + 1)
    IN  IF ~sw.found
        THEN [ok |-> FALSE, error |-> "threshold_error", curve |-> DefineCurve(lcid, 0, <<>>, <<>>)]
        ELSE LET pts == Points(1) IN
             [ok |-> TRUE, error |-> "",
              curve |-> DefineCurve(lcid, 0, [k \in 1..Len(pts) |-> pts[k].t],
                                    [k \in 1..Len(pts) |-> pts[k].v])]

\* _create_following_motion_condition from the leader-curve lookup on
FollowingCurveAndCondition(self, config) ==
    LET following == Val(config.following_config)
        leader_curve == self.leader_curves[following.leader_pid]
        s1 == _get_next_curve_id(self)
        following_lcid == s1.curve_id_counter
    IN  IF following.follow_mode = "displacement"
        THEN LET fc == create_threshold_following_curve(
                           following_lcid, following.threshold_displacement, leader_curve)
             IN  IF ~fc.ok THEN Raise(s1, fc.error)
                 ELSE LET condition == create_stroke_condition(
                                           config.part_id, following_lcid,
                                           config.direction, 1, 2)
                      IN  IF ~condition.ok THEN Raise(s1, condition.error)
                          ELSE Return(s1, [curves |-> ("following" :> fc.curve),
                                           conditions |-> ("following" :> condition.kw)])
        ELSE IF following.follow_mode = "velocity"
        THEN LET fc == _create_velocity_following_curve(
                           following_lcid, following.threshold_displacement, leader_curve)
             IN  IF ~fc.ok THEN Raise(s1, fc.error)
                 ELSE LET condition == create_stroke_condition(
                                           config.part_id, following_lcid,
                                           config.direction, 1, 0)
                      IN  IF ~condition.ok THEN Raise(s1, condition.error)
                          ELSE Return(s1, [curves |-> ("following" :> fc.curve),
                                           conditions |-> ("following" :> condition.kw)])
        ELSE Raise(s1, "config_error")

\* mutant: the curve ID is taken before the leader is looked up
_create_following_motion_condition_id_first(self, config) ==
    IF Val(config.following_config).leader_pid \notin DOMAIN self.leader_curves
    THEN Raise(_get_next_curve_id(self), "dependency_error")
    ELSE FollowingCurveAndCondition(self, config)

_create_following_motion_condition(self, config) ==
    IF Val(config.following_config).leader_pid \notin DOMAIN self.leader_curves
    THEN Raise(self, "dependency_error")
    ELSE FollowingCurveAndCondition(self, config)

\* mutant: a curve ID is taken before the motion-control type is looked at
_create_forced_motion_condition_id_first(self, config) ==
    IF config.following_config # None
    THEN _create_following_motion_condition(self, config)
    ELSE IF config.motion_control_type = "displacement"
    THEN _create_displacement_control(self, config)
    ELSE IF config.motion_control_type = "velocity"
    THEN _create_velocity_control(self, config)
    ELSE Raise(_get_next_curve_id(self), "config_error")

_create_forced_motion_condition(self, config) ==
    IF config.following_config # None
    THEN _create_following_motion_condition(self, config)
    ELSE IF config.motion_control_type = "displacement"
    THEN _create_displacement_control(self, config)
    ELSE IF config.motion_control_type = "velocity"
    THEN _create_velocity_control(self, config)
    ELSE Raise(self, "config_error")

create_tool_condition(self, config) ==
    IF config.condition_type = "forced_motion"
    THEN _create_forced_motion_condition(self, config)
    ELSE IF config.condition_type = "load_application"
    THEN _create_load_application_condition(self, config)
    ELSE Raise(self, "config_error")

\* mutant: a follower is put in front of the followers found so far
RECURSIVE SortLoop_prepend(_, _, _)
SortLoop_prepend(configs, leaders, followers) ==
    IF configs = <<>> THEN leaders \o followers
    ELSE LET config == Head(configs) IN
         IF config.condition_type = "forced_motion" /\ config.following_config # None
         THEN SortLoop_prepend(Tail(configs), leaders, <<config>> \o followers)
         ELSE SortLoop_prepend(Tail(configs), Append(leaders, config), followers)

\* the loop of _sort_configs_by_dependency over the rest of configs
RECURSIVE SortLoop(_, _, _)
SortLoop(configs, leaders, followers) ==
    IF configs = <<>> THEN leaders \o followers
    ELSE LET config == Head(configs) IN
         IF config.condition_type = "forced_motion" /\ config.following_config # None
         THEN SortLoop(Tail(configs), leaders, Append(followers, config))
         ELSE SortLoop(Tail(configs), Append(leaders, config), followers)

\* mutant: the list is processed as given
_sort_configs_by_dependency_unsorted(configs) == configs

\* mutant: a load-application config with a velocity-limit spec counts as a follower
RECURSIVE SortLoop_limits_last(_, _, _)
SortLoop_limits_last(configs, leaders, followers) ==
    IF configs = <<>> THEN leaders \o followers
    ELSE LET config == Head(configs) IN
         IF \/ config.condition_type = "forced_motion" /\ config.following_config # None
            \/ config.velocity_limit_config # None
         THEN SortLoop_limits_last(Tail(configs), leaders, Append(followers, config))
         ELSE SortLoop_limits_last(Tail(configs), Append(leaders, config), followers)

_sort_configs_by_dependency_limits_last(configs) ==
    SortLoop_limits_last(configs, <<>>, <<>>)

_sort_configs_by_dependency(configs) == SortLoop(configs, <<>>, <<>>)

\* config.name.lower().replace(" ", "_")
ToolName(config) ==
    [i \in 1..Len(config.name) |->
        IF lower(config.name[i]) = " " THEN "_" ELSE lower(config.name[i])]

----------------------------------------------------------------------------
(* Inputs: the ToolConditionConfig records the calls are made with *)

PartIds == {1, 2}

\* tool names "T1", "T2"
NameOf(pid) == IF pid = 1 THEN <<"T", "1">> ELSE <<"T", "2">>

DirNegZ == Str(<<"-", "z">>)
DirInvalid == Str(<<"z", "z">>)
\* Directions.NEGATIVE_Z
DirObjNegZ == Direction("z", -1)

ToolConditionConfig(ct, pid, dir, mct, da, va, mt, fc, la, pl, vl) ==
    [condition_type |-> ct, part_id |-> pid, direction |-> dir, name |-> NameOf(pid),
     motion_control_type |-> mct, displacement_amount |-> da, velocity_amount |-> va,
     motion_time |-> mt, stroke_mode |-> "forward_only", following_config |-> fc,
     load_amount |-> la, position_limits |-> pl, velocity_limit_config |-> vl]

FollowingConfig(leader, threshold, mode) ==
    [leader_pid |-> leader, threshold_displacement |-> threshold, follow_mode |-> mode]

VelocityLimitConfig(leader) == [leader_part_id |-> leader, limit_multiplier |-> 1100]

PositionLimits(max, min) == [max_position |-> max, min_position |-> min]

\* forced motion without a following spec (displacement 4.0 or velocity 4.0)
LeaderConfigs ==
    {ToolConditionConfig("forced_motion", p, d, mct,
                         IF mct = "displacement" THEN Some(Milli(4)) ELSE None,
                         IF mct = "velocity" THEN Some(Milli(4)) ELSE None,
                         mt, None, None, None, None) :
        p \in PartIds, d \in {DirNegZ, DirInvalid},
        mct \in {"displacement", "velocity", "None"}, mt \in {None, Some(2000)}}

\* forced motion with a following spec; threshold 1.0 is reached, 9.0 is not
FollowerConfigs ==
    {ToolConditionConfig("forced_motion", p, DirNegZ, "displacement", None, None, None,
                         Some(FollowingConfig(l, Milli(th), fm)), None, None, None) :
        p \in PartIds, l \in PartIds, th \in {1, 9}, fm \in {"displacement", "velocity"}}

LoadConfigs ==
    {ToolConditionConfig("load_application", p, DirNegZ, "None", None, None, None,
                         fc, Some(Milli(5)), pl, vl) :
        p \in PartIds,
        fc \in {None, Some(FollowingConfig(1, Milli(1), "displacement"))},
        pl \in {None, Some(PositionLimits(Milli(10), 0))},
        vl \in {None} \cup {Some(VelocityLimitConfig(l)) : l \in PartIds}}
    \cup
    {ToolConditionConfig("load_application", p, DirNegZ, "None", None, None, None,
                         None, Some(0), None, None) : p \in PartIds}

\* a condition_type that is neither member of ConditionType
OtherConfigs ==
    {ToolConditionConfig("None", 1, DirNegZ, "displacement", Some(Milli(4)), None, None,
                         None, Some(Milli(5)), None, None)}

\* configs of every kind whose direction is the Direction object
DirectionObjectConfigs ==
    {[c EXCEPT !.direction = DirObjNegZ] :
        c \in {l \in LeaderConfigs : /\ l.part_id = 1 /\ l.direction = DirNegZ
                                     /\ l.motion_time = None
                                     /\ l.motion_control_type # "None"}
           \cup {f \in FollowerConfigs :
                    /\ f.part_id = 2
                    /\ Val(f.following_config).leader_pid = 1
                    /\ Val(f.following_config).threshold_displacement = Milli(1)}
           \cup {l \in LoadConfigs : /\ l.part_id = 2 /\ l.load_amount = Some(Milli(5))
                                     /\ l.following_config = None
                                     /\ l.velocity_limit_config \in
                                            {None, Some(VelocityLimitConfig(1))}}}

ConfigSpace ==
    LeaderConfigs \cup FollowerConfigs \cup LoadConfigs \cup OtherConfigs
        \cup DirectionObjectConfigs

\* the configs the lists of create_tool_set_conditions are made of
SetConfigSpace ==
    {c \in LeaderConfigs : c.direction = DirNegZ /\ c.motion_time = None
                           /\ (c.part_id = 1 \/ c.motion_control_type = "velocity")}
    \cup {c \in FollowerConfigs : /\ c.part_id = 2
                                  /\ Val(c.following_config).leader_pid = 1
                                  /\ Val(c.following_config).follow_mode = "displacement"}
    \cup {c \in LoadConfigs : /\ c.part_id = 2 /\ c.load_amount = Some(Milli(5))
                              /\ \/ /\ c.following_config = None
                                    /\ c.position_limits # None
                                    /\ c.velocity_limit_config = Some(VelocityLimitConfig(1))
                                 \/ /\ c.following_config # None
                                    /\ c.position_limits = None
                                    /\ c.velocity_limit_config = None}

\* a second tool whose name differs from "T1" in letter case only
LowerCaseNamed ==
    {[c EXCEPT !.name = <<"t", "1">>] :
        c \in {l \in LeaderConfigs : /\ l.part_id = 2 /\ l.direction = DirNegZ
                                     /\ l.motion_time = None
                                     /\ l.motion_control_type = "displacement"}}

ConfigLists == UNION {[1..n -> SetConfigSpace \cup LowerCaseNamed] : n \in 0..MaxListLen}

----------------------------------------------------------------------------
(* The manager as a state machine *)

Self == [curve_id_counter |-> curve_id_counter, leader_curves |-> leader_curves,
         leader_motion_data |-> leader_motion_data, issued |-> issued]

\* the curve IDs a call consumed: the suffix it appended to issued
NewIds(r) == SubSeq(r.self.issued, Len(issued) + 1, Len(r.self.issued))

CallRecord(config, r) ==
    [called |-> TRUE, config |-> config, outcome |-> r.outcome, result |-> r.result,
     ids |-> NewIds(r)]

NoCall == [called |-> FALSE]

Install(r) ==
    /\ curve_id_counter' = r.self.curve_id_counter
    /\ leader_curves' = r.self.leader_curves
    /\ leader_motion_data' = r.self.leader_motion_data
    /\ issued' = r.self.issued

\* no call is running and the result of the last one was taken
CanStartCall ==
    /\ set_pc = "idle"
    /\ ~last.called
    /\ curve_id_counter < BaseCurveId + MaxCurveIds

\* one call of create_tool_condition from outside the manager
CreateToolCondition(config) ==
    /\ CanStartCall
    /\ \E r \in {create_tool_condition(Self, config)} :
        /\ Install(r)
        /\ last' = CallRecord(config, r)
    /\ set_pc' = "idle"
    /\ tool_configs' = <<>>
    /\ sorted_configs' = <<>>
    /\ set_idx' = 0
    /\ results' = EmptyDict
    /\ set_log' = <<>>
    /\ UNCHANGED id_vars
    /\ UNCHANGED an_vars
    /\ UNCHANGED lib_vars

\* create_tool_set_conditions up to the loop: results = {}, the sort
CreateToolSetConditions(configs) ==
    /\ CanStartCall
    /\ tool_configs' = configs
    /\ sorted_configs' = _sort_configs_by_dependency(configs)
    /\ set_idx' = 0
    /\ results' = EmptyDict
    /\ set_log' = <<>>
    /\ set_pc' = IF configs = <<>> THEN "returned" ELSE "loop"
    /\ last' = NoCall
    /\ UNCHANGED <<curve_id_counter, leader_curves, leader_motion_data, issued>>
    /\ UNCHANGED id_vars
    /\ UNCHANGED an_vars
    /\ UNCHANGED lib_vars

\* one iteration of its loop; the call returns after the last one, or raises
SetLoopIteration ==
    /\ set_pc = "loop"
    /\ \E config \in {sorted_configs[set_idx + 1]} :
       \E r \in {create_tool_condition(Self, config)} :
           /\ Install(r)
           /\ last' = CallRecord(config, r)
           /\ set_log' = Append(set_log, [config |-> config, outcome |-> r.outcome,
                                          ids |-> NewIds(r)])
           /\ IF r.outcome = "ok"
              THEN /\ results' = DictSet(results, ToolName(config), r.result)
                   /\ set_idx' = set_idx + 1
                   /\ set_pc' = IF set_idx + 1 = Len(sorted_configs)
                                THEN "returned" ELSE "loop"
              ELSE /\ set_pc' = "raised"
                   /\ UNCHANGED <<results, set_idx>>
    /\ UNCHANGED <<tool_configs, sorted_configs>>
    /\ UNCHANGED id_vars
    /\ UNCHANGED an_vars
    /\ UNCHANGED lib_vars

\* the caller takes what the call returned or raised: the locals of the call
\* end, the manager keeps its fields
TakeResult ==
    /\ set_pc # "loop"
    /\ last.called \/ set_pc # "idle"
    /\ last' = NoCall
    /\ set_pc' = "idle"
    /\ tool_configs' = <<>>
    /\ sorted_configs' = <<>>
    /\ set_idx' = 0
    /\ results' = EmptyDict
    /\ set_log' = <<>>
    /\ UNCHANGED <<curve_id_counter, leader_curves, leader_motion_data, issued>>
    /\ UNCHANGED id_vars
    /\ UNCHANGED an_vars
    /\ UNCHANGED lib_vars

----------------------------------------------------------------------------
(* IDManager.  self is the record of its fields; a method returns          *)
(* [self, ret], the fields after the call and the value returned.          *)

MaterialPresets == {"SPCC", "SUS304"}
RigidConstraints == {"fixed", "z-free"}

IdSelf ==
    [_workpiece_pid_counter |-> _workpiece_pid_counter,
     _tool_pid_base |-> _tool_pid_base,
     _mid_counter |-> _mid_counter,
     _rigid_mid_counter |-> _rigid_mid_counter,
     _part_to_material |-> _part_to_material,
     _part_to_section |-> _part_to_section,
     _material_preset_to_mid |-> _material_preset_to_mid,
     _rigid_constraint_to_mid |-> _rigid_constraint_to_mid]

\* IDManager.__init__
IDManager_init ==
    [_workpiece_pid_counter |-> 1,
     _tool_pid_base |-> 1100,
     _mid_counter |-> 1,
     _rigid_mid_counter |-> 9000,
     _part_to_material |-> EmptyDict,
     _part_to_section |-> EmptyDict,
     _material_preset_to_mid |-> EmptyDict,
     _rigid_constraint_to_mid |-> EmptyDict]

get_next_workpiece_pid(self) ==
    [self |-> [self EXCEPT !._workpiece_pid_counter = @ + 1],
     ret |-> self._workpiece_pid_counter]

\* mutant: ten PIDs per step instead of one hundred
get_tool_pid_block_of_ten(self, step_order, tool_index) ==
    self._tool_pid_base + (step_order * 10) + (tool_index + 1)

\* mutant: the tool index is used as it is (numbering from 0)
get_tool_pid_from_zero(self, step_order, tool_index) ==
    self._tool_pid_base + (step_order * 100) + tool_index

get_tool_pid(self, step_order, tool_index) ==
    self._tool_pid_base + (step_order * 100) + (tool_index + 1)

get_next_mid(self) ==
    [self |-> [self EXCEPT !._mid_counter = @ + 1], ret |-> self._mid_counter]

get_next_rigid_mid(self) ==
    [self |-> [self EXCEPT !._rigid_mid_counter = @ + 1], ret |-> self._rigid_mid_counter]

\* mutant: the new ID is not recorded for the preset
get_or_create_material_id_not_recorded(self, material_preset) ==
    IF material_preset \in DOMAIN self._material_preset_to_mid
    THEN [self |-> self, ret |-> <<self._material_preset_to_mid[material_preset], FALSE>>]
    ELSE LET a == get_next_mid(self) IN [self |-> a.self, ret |-> <<a.ret, TRUE>>]

\* ret = <<MID, is_new>>
get_or_create_material_id(self, material_preset) ==
    IF material_preset \in DOMAIN self._material_preset_to_mid
    THEN [self |-> self, ret |-> <<self._material_preset_to_mid[material_preset], FALSE>>]
    ELSE LET a == get_next_mid(self) IN
         [self |-> [a.self EXCEPT !._material_preset_to_mid =
                                      DictSet(@, material_preset, a.ret)],
          ret |-> <<a.ret, TRUE>>]

\* ret = <<MID, is_new>>
get_or_create_rigid_material_id(self, constraint) ==
    IF constraint \in DOMAIN self._rigid_constraint_to_mid
    THEN [self |-> self, ret |-> <<self._rigid_constraint_to_mid[constraint], FALSE>>]
    ELSE LET a == get_next_rigid_mid(self) IN
         [self |-> [a.self EXCEPT !._rigid_constraint_to_mid = DictSet(@, constraint, a.ret)],
          ret |-> <<a.ret, TRUE>>]

IdInstall(self) ==
    /\ _workpiece_pid_counter' = self._workpiece_pid_counter
    /\ _tool_pid_base' = self._tool_pid_base
    /\ _mid_counter' = self._mid_counter
    /\ _rigid_mid_counter' = self._rigid_mid_counter
    /\ _part_to_material' = self._part_to_material
    /\ _part_to_section' = self._part_to_section
    /\ _material_preset_to_mid' = self._material_preset_to_mid
    /\ _rigid_constraint_to_mid' = self._rigid_constraint_to_mid

NoIdCall == [op |-> "none"]

\* the record of one allocator call in alloc_hist[allocator][key]
HistAdd(hist, allocator, key, ret) ==
    LET h == hist[allocator] IN
    [hist EXCEPT ![allocator] =
        IF key \in DOMAIN h
        THEN DictSet(h, key, [h[key] EXCEPT !.ids = @ \cup {ret[1]},
                                           !.later_new = @ \cup {ret[2]}])
        ELSE DictSet(h, key, [ids |-> {ret[1]}, first_new |-> ret[2], later_new |-> {}])]

GetNextWorkpiecePid ==
    /\ _workpiece_pid_counter < IDManager_init._workpiece_pid_counter + MaxAllocs
    /\ LET a == get_next_workpiece_pid(IdSelf) IN
        /\ IdInstall(a.self)
        /\ id_last' = [op |-> "get_next_workpiece_pid", ret |-> a.ret]
    /\ UNCHANGED <<alloc_hist, pid_prev, pid_calls>>
    /\ UNCHANGED mgr_vars
    /\ UNCHANGED an_vars
    /\ UNCHANGED lib_vars

GetToolPid(step_order, tool_index) ==
    /\ pid_calls < MaxPidCalls
    /\ pid_calls' = pid_calls + 1
    /\ id_last' = [op |-> "get_tool_pid", step_order |-> step_order,
                   tool_index |-> tool_index,
                   ret |-> get_tool_pid(IdSelf, step_order, tool_index)]
    /\ pid_prev' = IF id_last.op = "get_tool_pid" THEN id_last ELSE pid_prev
    /\ IdInstall(IdSelf)
    /\ UNCHANGED alloc_hist
    /\ UNCHANGED mgr_vars
    /\ UNCHANGED an_vars
    /\ UNCHANGED lib_vars

GetNextMid ==
    /\ _mid_counter < IDManager_init._mid_counter + MaxAllocs
    /\ LET a == get_next_mid(IdSelf) IN
        /\ IdInstall(a.self)
        /\ id_last' = [op |-> "get_next_mid", ret |-> a.ret]
    /\ UNCHANGED <<alloc_hist, pid_prev, pid_calls>>
    /\ UNCHANGED mgr_vars
    /\ UNCHANGED an_vars
    /\ UNCHANGED lib_vars

GetNextRigidMid ==
    /\ _rigid_mid_counter < IDManager_init._rigid_mid_counter + MaxAllocs
    /\ LET a == get_next_rigid_mid(IdSelf) IN
        /\ IdInstall(a.self)
        /\ id_last' = [op |-> "get_next_rigid_mid", ret |-> a.ret]
    /\ UNCHANGED <<alloc_hist, pid_prev, pid_calls>>
    /\ UNCHANGED mgr_vars
    /\ UNCHANGED an_vars
    /\ UNCHANGED lib_vars

GetOrCreateMaterialId(material_preset) ==
    /\ _mid_counter < IDManager_init._mid_counter + MaxAllocs
    /\ LET a == get_or_create_material_id(IdSelf, material_preset) IN
        /\ IdInstall(a.self)
        /\ id_last' = [op |-> "get_or_create_material_id", key |-> material_preset,
                       ret |-> a.ret]
        /\ alloc_hist' = HistAdd(alloc_hist, "material", material_preset, a.ret)
    /\ UNCHANGED <<pid_prev, pid_calls>>
    /\ UNCHANGED mgr_vars
    /\ UNCHANGED an_vars
    /\ UNCHANGED lib_vars

GetOrCreateRigidMaterialId(constraint) ==
    /\ _rigid_mid_counter < IDManager_init._rigid_mid_counter + MaxAllocs
    /\ LET a == get_or_create_rigid_material_id(IdSelf, constraint) IN
        /\ IdInstall(a.self)
        /\ id_last' = [op |-> "get_or_create_rigid_material_id", key |-> constraint,
                       ret |-> a.ret]
        /\ alloc_hist' = HistAdd(alloc_hist, "rigid", constraint, a.ret)
    /\ UNCHANGED <<pid_prev, pid_calls>>
    /\ UNCHANGED mgr_vars
    /\ UNCHANGED an_vars
    /\ UNCHANGED lib_vars

\* register_part_material / register_part_section: dict assignment
register_part_material(self, pid, mid) ==
    [self EXCEPT !._part_to_material = DictSet(@, pid, mid)]

register_part_section(self, pid, secid) ==
    [self EXCEPT !._part_to_section = DictSet(@, pid, secid)]

\* dict.get(pid): the value, or None
get_part_material(self, pid) ==
    IF pid \in DOMAIN self._part_to_material THEN Some(self._part_to_material[pid]) ELSE None

get_part_section(self, pid) ==
    IF pid \in DOMAIN self._part_to_section THEN Some(self._part_to_section[pid]) ELSE None

\* the PIDs, MIDs and section IDs handed to the registries
RegistryPids == {1, 1201}
RegistryMids == {1, 9000}
RegistrySecids == {1, 2}

RegisterPartMaterial(pid, mid) ==
    /\ IdInstall(register_part_material(IdSelf, pid, mid))
    /\ id_last' = [op |-> "register_part_material", pid |-> pid, value |-> mid]
    /\ UNCHANGED <<alloc_hist, pid_prev, pid_calls>>
    /\ UNCHANGED mgr_vars
    /\ UNCHANGED an_vars
    /\ UNCHANGED lib_vars

RegisterPartSection(pid, secid) ==
    /\ IdInstall(register_part_section(IdSelf, pid, secid))
    /\ id_last' = [op |-> "register_part_section", pid |-> pid, value |-> secid]
    /\ UNCHANGED <<alloc_hist, pid_prev, pid_calls>>
    /\ UNCHANGED mgr_vars
    /\ UNCHANGED an_vars
    /\ UNCHANGED lib_vars

GetPartMaterial(pid) ==
    /\ IdInstall(IdSelf)
    /\ id_last' = [op |-> "get_part_material", pid |-> pid,
                   ret |-> get_part_material(IdSelf, pid)]
    /\ UNCHANGED <<alloc_hist, pid_prev, pid_calls>>
    /\ UNCHANGED mgr_vars
    /\ UNCHANGED an_vars
    /\ UNCHANGED lib_vars

GetPartSection(pid) ==
    /\ IdInstall(IdSelf)
    /\ id_last' = [op |-> "get_part_section", pid |-> pid,
                   ret |-> get_part_section(IdSelf, pid)]
    /\ UNCHANGED <<alloc_hist, pid_prev, pid_calls>>
    /\ UNCHANGED mgr_vars
    /\ UNCHANGED an_vars
    /\ UNCHANGED lib_vars

----------------------------------------------------------------------------
(* The class Directions and its metaclass _DirectionsMeta.  A Python value *)
(* is [type, ...]: a Direction [type, axis, sign] or a bool [type, value]. *)

Bool(b) == [type |-> "bool", value |-> b]

\* bool(value): a Direction defines neither __bool__ nor __len__
Truthy(v) == IF v.type = "bool" THEN v.value ELSE TRUE

PresetNames == {"POSITIVE_X", "NEGATIVE_X", "POSITIVE_Y", "NEGATIVE_Y",
                "POSITIVE_Z", "NEGATIVE_Z"}

\* the class body of Directions, then Directions._initialized = True
Directions_class ==
    [POSITIVE_X |-> Direction("x", 1), NEGATIVE_X |-> Direction("x", -1),
     POSITIVE_Y |-> Direction("y", 1), NEGATIVE_Y |-> Direction("y", -1),
     POSITIVE_Z |-> Direction("z", 1), NEGATIVE_Z |-> Direction("z", -1),
     _initialized |-> Bool(TRUE)]

\* cls._initialized: the class's own attribute, else _DirectionsMeta._initialized = False
Directions_initialized(attrs) ==
    IF "_initialized" \in DOMAIN attrs THEN attrs["_initialized"] ELSE Bool(FALSE)

\* _DirectionsMeta.__setattr__: [attrs, outcome]
Directions_setattr(attrs, name, value) ==
    IF Truthy(Directions_initialized(attrs)) /\ name # "_initialized"
    THEN [attrs |-> attrs, outcome |-> "attribute_error"]
    ELSE [attrs |-> DictSet(attrs, name, value), outcome |-> "ok"]

\* _DirectionsMeta.__delattr__: [attrs, outcome]
Directions_delattr(attrs, name) == [attrs |-> attrs, outcome |-> "attribute_error"]

NoLibCall == [op |-> "none"]

----------------------------------------------------------------------------
(* DeckGenerator (src/src/core/export/deck_generator.py).  The project     *)
(* handed to generate is [steps, uploaded_meshes, symmetry_planes]; a step *)
(* is [order, workpieces, tools], a workpiece [mesh_id, material_preset],  *)
(* a tool [name, mesh_id, motion_type, direction, value, motion_time] with *)
(* direction the value of a MotionDirection or None.  A keyword is a       *)
(* record [kw, ...] of the IDs it carries.  The control and database       *)
(* keywords come from fixed templates and carry no ID of a part, material  *)
(* or curve of the project; they are not part of the deck record.          *)

\* MATERIAL_PRESETS[preset]["lcss"]
PresetLcss(preset) ==
    CASE preset = "SPCC" -> 100
      [] preset = "SUS304" -> 101

\* AnalysisConfig.get_mesh_by_id: the MeshInfo, or None
get_mesh_by_id(config, mesh_id) ==
    IF mesh_id \in config.uploaded_meshes
    THEN Some([id |-> mesh_id, element_type |-> "SHELL"])
    ELSE None

\* IDManager.get_section_id
get_section_id(self, element_type) ==
    CASE element_type = "SHELL" -> 1
      [] element_type = "SOLID_TET" -> 2
      [] element_type \in {"SOLID_HEX", "SOLID"} -> 3
      [] OTHER -> 1

\* f"{axis}-free"
AxisFree(axis) ==
    CASE axis = "x" -> "x-free"
      [] axis = "y" -> "y-free"
      [] axis = "z" -> "z-free"

\* the rigid constraint pattern of a tool, as both passes compute it
ToolConstraint(tool) ==
    IF tool.motion_type = "fixed" THEN "fixed"
    ELSE IF tool.direction # None THEN AxisFree(Val(tool.direction)[2])
    ELSE "fixed"

\* for step in config.steps: for idx, x in enumerate(step.<field>)
RECURSIVE Enumerate(_, _)
Enumerate(step_list, field) ==
    IF step_list = <<>> THEN <<>>
    ELSE LET step == Head(step_list) IN
         [i \in 1..Len(step[field]) |->
             [order |-> step.order, idx |-> i - 1, item |-> step[field][i]]]
         \o Enumerate(Tail(step_list), field)

\* the keys of a dict filled in this order (first occurrences)
RECURSIVE DictKeys(_, _)
DictKeys(keys, seen) ==
    IF keys = <<>> THEN <<>>
    ELSE IF Head(keys) \in seen THEN DictKeys(Tail(keys), seen)
    ELSE <<Head(keys)>> \o DictKeys(Tail(keys), seen \cup {Head(keys)})

\* sorted(set of int)
RECURSIVE Sorted(_)
Sorted(S) ==
    IF S = {} THEN <<>>
    ELSE LET m == CHOOSE x \in S : \A y \in S : x <= y IN <<m>> \o Sorted(S \ {m})

\* sorted(rigid_constraints)
SortedConstraints(S) ==
    SelectSeq(<<"fixed", "x-free", "y-free", "z-free">>, LAMBDA c : c \in S)

\* the value of a one-element set: {e(r) : r \in {call}} names the result of
\* a call once, as a local variable of the code does
Only(S) == CHOOSE x \in S : TRUE

RECURSIVE MaterialLoop(_, _, _)
MaterialLoop(self, keys, material_keywords) ==
    IF keys = <<>> THEN [self |-> self, material_keywords |-> material_keywords]
    ELSE Only({MaterialLoop(r.self, Tail(keys),
                            IF r.ret[2]
                            THEN Append(material_keywords,
                                        [kw |-> "Mat024", mid |-> r.ret[1],
                                         lcss |-> PresetLcss(Head(keys))])
                            ELSE material_keywords) :
                  r \in {get_or_create_material_id(self, Head(keys))}})

RECURSIVE RigidMaterialLoop(_, _, _)
RigidMaterialLoop(self, constraints, material_keywords) ==
    IF constraints = <<>> THEN [self |-> self, material_keywords |-> material_keywords]
    ELSE Only({RigidMaterialLoop(r.self, Tail(constraints),
                                 IF r.ret[2]
                                 THEN Append(material_keywords,
                                             [kw |-> "Mat020", mid |-> r.ret[1],
                                              constraint |-> Head(constraints)])
                                 ELSE material_keywords) :
                  r \in {get_or_create_rigid_material_id(self, Head(constraints))}})

\* the four parts of _generate_materials over the given steps
MaterialsOf(self, step_list) ==
    LET workpieces == Enumerate(step_list, "workpieces")
        tools == Enumerate(step_list, "tools")
        material_map ==
            DictKeys([i \in 1..Len(workpieces) |-> workpieces[i].item.material_preset], {})
        lcss_set == {PresetLcss(workpieces[i].item.material_preset) :
                        i \in 1..Len(workpieces)}
        lcss_sorted == Sorted(lcss_set)
        curve_keywords == [i \in 1..Len(lcss_sorted) |->
                              [kw |-> "DefineCurve", lcid |-> lcss_sorted[i]]]
        rigid_constraints == {ToolConstraint(tools[i].item) : i \in 1..Len(tools)}
    IN  Only({RigidMaterialLoop(m.self, SortedConstraints(rigid_constraints),
                                m.material_keywords) :
                 m \in {MaterialLoop(self, material_map, curve_keywords)}})

\* mutant: only the first step's workpieces and tools are collected
_generate_materials_first_step(self, config) == MaterialsOf(self, SubSeq(config.steps, 1, 1))

\* [self, material_keywords]
_generate_materials(self, config) == MaterialsOf(self, config.steps)

RECURSIVE WorkpiecePartLoop(_, _, _, _)
WorkpiecePartLoop(self, config, items, part_keywords) ==
    IF items = <<>> THEN [self |-> self, part_keywords |-> part_keywords]
    ELSE LET workpiece == Head(items).item
             mesh == get_mesh_by_id(config, workpiece.mesh_id)
         IN  IF workpiece.mesh_id = "" \/ mesh = None
             THEN WorkpiecePartLoop(self, config, Tail(items), part_keywords)
             ELSE Only({
                  LET pid == p.ret
                      secid == get_section_id(p.self, Val(mesh).element_type)
                      mid == m.ret[1]
                  IN  WorkpiecePartLoop(
                          register_part_section(register_part_material(m.self, pid, mid),
                                                pid, secid),
                          config, Tail(items),
                          part_keywords \o <<[kw |-> "Part", pid |-> pid, secid |-> secid,
                                              mid |-> mid],
                                             [kw |-> "Include", pid |-> pid]>>) :
                  p \in {get_next_workpiece_pid(self)},
                  m \in {get_or_create_material_id(get_next_workpiece_pid(self).self,
                                                   workpiece.material_preset)}})

RECURSIVE ToolPartLoop(_, _, _, _)
ToolPartLoop(self, config, items, part_keywords) ==
    IF items = <<>> THEN [self |-> self, part_keywords |-> part_keywords]
    ELSE LET tool == Head(items).item
             mesh == get_mesh_by_id(config, tool.mesh_id)
         IN  IF tool.mesh_id = "" \/ mesh = None
             THEN ToolPartLoop(self, config, Tail(items), part_keywords)
             ELSE Only({
                  LET secid == get_section_id(self, Val(mesh).element_type)
                      mid == m.ret[1]
                  IN  ToolPartLoop(
                          register_part_section(register_part_material(m.self, pid, mid),
                                                pid, secid),
                          config, Tail(items),
                          part_keywords \o <<[kw |-> "Part", pid |-> pid, secid |-> secid,
                                              mid |-> mid],
                                             [kw |-> "Include", pid |-> pid]>>) :
                  pid \in {get_tool_pid(self, Head(items).order, Head(items).idx)},
                  m \in {get_or_create_rigid_material_id(self, ToolConstraint(tool))}})

\* [self, part_keywords]
_generate_parts(self, config) ==
    Only({ToolPartLoop(w.self, config, Enumerate(config.steps, "tools"), w.part_keywords) :
             w \in {WorkpiecePartLoop(self, config,
                                      Enumerate(config.steps, "workpieces"), <<>>)}})

\* result["curves"].values() then result["conditions"].values()
ResultKeywords(result) ==
    LET Values(d) ==
            LET keys == SelectSeq(<<"displacement", "velocity", "preload", "limit_max",
                                    "limit_min", "velocity_limit", "following", "motion",
                                    "load", "limits">>, LAMBDA k : k \in DOMAIN d)
            IN  [i \in 1..Len(keys) |-> d[keys[i]]]
    IN  Values(result.curves) \o Values(result.conditions)

\* ToolConditionManager.__init__
ToolConditionManager_init ==
    [curve_id_counter |-> BaseCurveId, leader_curves |-> EmptyDict,
     leader_motion_data |-> EmptyDict, issued |-> <<>>]

\* the ToolConditionConfig _generate_boundaries builds for a tool, or None
BoundaryConfig(tool, pid) ==
    IF tool.direction = None \/ tool.value = None THEN None
    ELSE IF tool.motion_type = "displacement"
    THEN Some([ToolConditionConfig("forced_motion", pid, Str(Val(tool.direction)),
                                   "displacement", tool.value, None,
                                   Some(tool.motion_time), None, None, None, None)
                  EXCEPT !.name = tool.name])
    ELSE IF tool.motion_type = "load"
    THEN Some([ToolConditionConfig("load_application", pid, Str(Val(tool.direction)),
                                   "None", None, None, None, None, tool.value, None, None)
                  EXCEPT !.name = tool.name])
    ELSE None

RECURSIVE BoundaryLoop(_, _, _, _)
BoundaryLoop(self, tool_manager, items, boundary_keywords) ==
    IF items = <<>> THEN [outcome |-> "ok", boundary_keywords |-> boundary_keywords]
    ELSE LET tool == Head(items).item
             pid == get_tool_pid(self, Head(items).order, Head(items).idx)
             tool_config == BoundaryConfig(tool, pid)
         IN  IF tool_config = None
             THEN BoundaryLoop(self, tool_manager, Tail(items), boundary_keywords)
             ELSE Only({
                  IF r.outcome # "ok"
                  THEN [outcome |-> r.outcome, boundary_keywords |-> boundary_keywords]
                  ELSE BoundaryLoop(self, r.self, Tail(items),
                                    boundary_keywords \o ResultKeywords(r.result)) :
                  r \in {create_tool_condition(tool_manager, Val(tool_config))}})

\* [outcome, boundary_keywords]
_generate_boundaries(self, config) ==
    Only({IF b.outcome # "ok" THEN b
          ELSE [outcome |-> "ok",
                boundary_keywords |->
                    b.boundary_keywords \o
                    [i \in 1..Len(config.symmetry_planes) |->
                        [kw |-> "BoundarySpc", plane |-> config.symmetry_planes[i]]]] :
             b \in {BoundaryLoop(self, ToolConditionManager_init,
                                 Enumerate(config.steps, "tools"), <<>>)}})

\* DeckGenerator.generate: the keyword groups handed to the file writer, or
\* the error raised
generate(config) ==
    Only({Only({Only({
        [outcome |-> b.outcome,
         section_keywords |-> <<[kw |-> "SectionShell", secid |-> 1],
                                [kw |-> "SectionSolid", secid |-> 2],
                                [kw |-> "SectionSolid", secid |-> 3]>>,
         material_keywords |-> m.material_keywords,
         part_keywords |-> p.part_keywords,
         boundary_keywords |-> b.boundary_keywords,
         contact_keywords |-> <<[kw |-> "Contact", cid |-> 1, part_a |-> 1, part_b |-> 2]>>,
         mids_after_materials |-> <<m.self._mid_counter, m.self._rigid_mid_counter>>,
         mids_after_parts |-> <<p.self._mid_counter, p.self._rigid_mid_counter>>] :
        b \in {_generate_boundaries(p.self, config)}}) :
        p \in {_generate_parts(m.self, config)}}) :
        m \in {_generate_materials(IDManager_init, config)}})

\* the projects generate is called with
WorkpieceConfig(mesh_id, material_preset) ==
    [mesh_id |-> mesh_id, material_preset |-> material_preset]

ToolConfig(name, mesh_id, motion_type, direction) ==
    [name |-> name, mesh_id |-> mesh_id, motion_type |-> motion_type,
     direction |-> direction, value |-> Some(Milli(4)), motion_time |-> 1000]

\* "gone" is the id of a mesh that was removed from uploaded_meshes
WorkpieceLists ==
    {<<>>,
     <<WorkpieceConfig("m1", "SPCC"), WorkpieceConfig("m1", "SUS304")>>,
     <<WorkpieceConfig("", "SUS304"), WorkpieceConfig("m1", "SPCC")>>,
     <<WorkpieceConfig("gone", "SUS304")>>}

ToolLists ==
    {<<>>,
     <<ToolConfig(NameOf(1), "m1", "displacement", Some(<<"-", "z">>)),
       ToolConfig(NameOf(2), "m1", "load", Some(<<"+", "z">>))>>,
     <<ToolConfig(NameOf(1), "m1", "displacement", None),
       ToolConfig(NameOf(2), "m1", "load", Some(<<"+", "x">>))>>,
     <<ToolConfig(NameOf(1), "", "displacement", Some(<<"-", "z">>))>>,
     <<ToolConfig(NameOf(1), "m1", "fixed", None),
       ToolConfig(NameOf(2), "gone", "load", Some(<<"-", "z">>))>>}

DeckConfigs ==
    {[steps |-> [i \in 1..n |-> [order |-> i, workpieces |-> w[i], tools |-> t[i]]],
      uploaded_meshes |-> {"m1"}, symmetry_planes |-> <<>>] :
        n \in 1..MaxDeckSteps, w \in [1..MaxDeckSteps -> WorkpieceLists],
        t \in [1..MaxDeckSteps -> ToolLists]}

\* one call of DeckGenerator.generate
Generate(config) ==
    /\ fn_call = NoLibCall
    /\ \E deck \in {generate(config)} :
          fn_call' = [op |-> "generate", config |-> config, deck |-> deck]
    /\ UNCHANGED <<Directions_attrs, attr_last, attr_ops>>
    /\ UNCHANGED mgr_vars
    /\ UNCHANGED id_vars
    /\ UNCHANGED an_vars

NextDeck == \E config \in DeckConfigs : Generate(config)

----------------------------------------------------------------------------
(* AnalysisConfig (src/src/state/analysis.py, src/src/core/config.py).     *)
(* self is the record of the fields [steps, symmetry_planes] and of the    *)
(* uuid source; a method returns [self, ret].  A StepConfig is [id, order] *)
(* (its name, type and parts are not read by the step operations), a       *)
(* SymmetryPlane is [id, plane, coordinate]; uuid4 gives the IDs 1, 2, ... *)

AnSelf == [steps |-> steps, symmetry_planes |-> symmetry_planes,
           uuid_counter |-> uuid_counter]

SymmetryPlaneTypes == {"xy", "yz", "zx"}

\* list.pop(i), i from 1
Pop(list, i) == SubSeq(list, 1, i - 1) \o SubSeq(list, i + 1, Len(list))

\* list.insert(i, x): x becomes the element i + 1 (i from 0)
Insert(list, i, x) == SubSeq(list, 1, i) \o <<x>> \o SubSeq(list, i + 1, Len(list))

\* the position of the first element with the given id, 0 if there is none
IndexOfId(list, id) ==
    IF \E i \in 1..Len(list) : list[i].id = id
    THEN CHOOSE i \in 1..Len(list) :
             /\ list[i].id = id
             /\ \A j \in 1..(i - 1) : list[j].id # id
    ELSE 0

\* AnalysisConfig.__post_init__ on AnalysisConfig(): one default step
AnalysisConfig_init ==
    [steps |-> <<[id |-> 1, order |-> 1]>>, symmetry_planes |-> <<>>, uuid_counter |-> 1]

add_step(self) ==
    LET order == Len(self.steps) + 1
        step == [id |-> self.uuid_counter + 1, order |-> order]
    IN  [self |-> [self EXCEPT !.steps = Append(@, step), !.uuid_counter = @ + 1],
         ret |-> Some(step)]

remove_step(self, step_id) ==
    LET i == IndexOfId(self.steps, step_id) IN
    IF i = 0 THEN [self |-> self, ret |-> FALSE]
    ELSE LET popped == Pop(self.steps, i) IN
         [self |-> [self EXCEPT !.steps =
                        [j \in 1..Len(popped) |-> [popped[j] EXCEPT !.order = j]]],
          ret |-> TRUE]

\* src/src/state/analysis.py: the copy is inserted after its source
duplicate_step(self, step_id) ==
    LET source_index == IndexOfId(self.steps, step_id) IN
    IF source_index = 0 THEN [self |-> self, ret |-> None]
    ELSE LET source == self.steps[source_index]
             new_step == [id |-> self.uuid_counter + 1, order |-> source.order]
             inserted == Insert(self.steps, source_index, new_step)
             renumbered == [i \in 1..Len(inserted) |->
                               IF i >= source_index + 1
                               THEN [inserted[i] EXCEPT !.order = i]
                               ELSE inserted[i]]
         IN  [self |-> [self EXCEPT !.steps = renumbered, !.uuid_counter = @ + 1],
              ret |-> Some(renumbered[source_index + 1])]

\* src/src/core/config.py: the copy is appended
config_duplicate_step(self, step_id) ==
    LET source_index == IndexOfId(self.steps, step_id) IN
    IF source_index = 0 THEN [self |-> self, ret |-> None]
    ELSE LET new_step == [id |-> self.uuid_counter + 1, order |-> Len(self.steps) + 1]
         IN  [self |-> [self EXCEPT !.steps = Append(@, new_step), !.uuid_counter = @ + 1],
              ret |-> Some(new_step)]

move_step_up(self, step_id) ==
    LET i == IndexOfId(self.steps, step_id) IN
    IF i = 0 \/ i = 1 THEN [self |-> self, ret |-> FALSE]
    ELSE [self |-> [self EXCEPT !.steps =
                       [@ EXCEPT ![i - 1] = [self.steps[i] EXCEPT !.order = i - 1],
                                 ![i] = [self.steps[i - 1] EXCEPT !.order = i]]],
          ret |-> TRUE]

move_step_down(self, step_id) ==
    LET i == IndexOfId(self.steps, step_id) IN
    IF i = 0 \/ i = Len(self.steps) THEN [self |-> self, ret |-> FALSE]
    ELSE [self |-> [self EXCEPT !.steps =
                       [@ EXCEPT ![i] = [self.steps[i + 1] EXCEPT !.order = i],
                                 ![i + 1] = [self.steps[i] EXCEPT !.order = i + 1]]],
          ret |-> TRUE]

\* mutant: the check for a plane of the same type is left out
add_symmetry_plane_no_type_check(self, plane, coordinate) ==
    IF Len(self.symmetry_planes) >= 2 THEN [self |-> self, ret |-> None]
    ELSE LET sym == [id |-> self.uuid_counter + 1, plane |-> plane,
                     coordinate |-> coordinate]
         IN  [self |-> [self EXCEPT !.symmetry_planes = Append(@, sym),
                                    !.uuid_counter = @ + 1],
              ret |-> Some(sym)]

add_symmetry_plane(self, plane, coordinate) ==
    IF Len(self.symmetry_planes) >= 2 THEN [self |-> self, ret |-> None]
    ELSE IF \E i \in 1..Len(self.symmetry_planes) : self.symmetry_planes[i].plane = plane
    THEN [self |-> self, ret |-> None]
    ELSE LET sym == [id |-> self.uuid_counter + 1, plane |-> plane,
                     coordinate |-> coordinate]
         IN  [self |-> [self EXCEPT !.symmetry_planes = Append(@, sym),
                                    !.uuid_counter = @ + 1],
              ret |-> Some(sym)]

remove_symmetry_plane(self, plane_id) ==
    LET i == IndexOfId(self.symmetry_planes, plane_id) IN
    IF i = 0 THEN [self |-> self, ret |-> FALSE]
    ELSE [self |-> [self EXCEPT !.symmetry_planes = Pop(@, i)], ret |-> TRUE]

NoAnCall == [op |-> "none"]

\* one call on the AnalysisConfig: r is what the method returned (calls are
\* made as long as uuid4 has IDs left)
AnCall(op, arg, r) ==
    /\ r.self.uuid_counter <= MaxUuids
    /\ steps' = r.self.steps
    /\ symmetry_planes' = r.self.symmetry_planes
    /\ uuid_counter' = r.self.uuid_counter
    /\ an_last' = [op |-> op, arg |-> arg, ret |-> r.ret, before |-> AnSelf]
    /\ UNCHANGED mgr_vars
    /\ UNCHANGED id_vars
    /\ UNCHANGED lib_vars

\* the IDs handed to the calls: those produced so far and one unknown ID
KnownAndUnknownIds == 1..(uuid_counter + 1)

AddStep ==
    \E r \in {add_step(AnSelf)} : AnCall("add_step", 0, r)

RemoveStep(step_id) ==
    \E r \in {remove_step(AnSelf, step_id)} : AnCall("remove_step", step_id, r)

DuplicateStep(step_id) ==
    \E r \in {duplicate_step(AnSelf, step_id)} : AnCall("duplicate_step", step_id, r)

ConfigDuplicateStep(step_id) ==
    \E r \in {config_duplicate_step(AnSelf, step_id)} :
        AnCall("duplicate_step", step_id, r)

MoveStepUp(step_id) ==
    \E r \in {move_step_up(AnSelf, step_id)} : AnCall("move_step_up", step_id, r)

MoveStepDown(step_id) ==
    \E r \in {move_step_down(AnSelf, step_id)} : AnCall("move_step_down", step_id, r)

AddSymmetryPlane(plane, coordinate) ==
    \E r \in {add_symmetry_plane(AnSelf, plane, coordinate)} :
        AnCall("add_symmetry_plane", [plane |-> plane, coordinate |-> coordinate], r)

RemoveSymmetryPlane(plane_id) ==
    \E r \in {remove_symmetry_plane(AnSelf, plane_id)} :
        AnCall("remove_symmetry_plane", plane_id, r)

\* the step operations without duplicate_step, which the two classes share
StepCalls ==
    \/ AddStep
    \/ \E step_id \in KnownAndUnknownIds : RemoveStep(step_id)
    \/ \E step_id \in KnownAndUnknownIds : MoveStepUp(step_id)
    \/ \E step_id \in KnownAndUnknownIds : MoveStepDown(step_id)

\* state.AnalysisConfig
NextSteps ==
    \/ StepCalls
    \/ \E step_id \in KnownAndUnknownIds : DuplicateStep(step_id)

\* core.config.AnalysisConfig
NextConfigSteps ==
    \/ StepCalls
    \/ \E step_id \in KnownAndUnknownIds : ConfigDuplicateStep(step_id)

NextSymmetry ==
    \/ \E plane \in SymmetryPlaneTypes, coordinate \in {0, Milli(5)} :
          AddSymmetryPlane(plane, coordinate)
    \/ \E plane_id \in KnownAndUnknownIds : RemoveSymmetryPlane(plane_id)

----------------------------------------------------------------------------
(* Calls of single functions with arguments drawn from small sets *)

\* leaders with a displacement or velocity of 50.0 or -4.0 over 0.5 or the default time
VelocityLeaderConfigs ==
    {ToolConditionConfig("forced_motion", p, DirNegZ, mct,
                         IF mct = "displacement" THEN Some(a) ELSE None,
                         IF mct = "velocity" THEN Some(a) ELSE None,
                         mt, None, None, None, None) :
        p \in PartIds, mct \in {"displacement", "velocity"},
        a \in {Milli(50), Milli(-4)}, mt \in {None, Some(500)}}

VelocityLimitConfigs ==
    {[leader_part_id |-> l, limit_multiplier |-> m] : l \in PartIds, m \in {0, 1100, 2000}}

\* self._calculate_velocity_limit_from_leader(velocity_config) on the manager as it is
CalculateVelocityLimit(velocity_config) ==
    /\ fn_call' = [op |-> "_calculate_velocity_limit_from_leader",
                   velocity_config |-> velocity_config,
                   leader_motion_data |-> leader_motion_data,
                   r |-> _calculate_velocity_limit_from_leader(Self, velocity_config)]
    /\ UNCHANGED <<Directions_attrs, attr_last, attr_ops>>
    /\ UNCHANGED mgr_vars
    /\ UNCHANGED id_vars
    /\ UNCHANGED an_vars

Init ==
    /\ _workpiece_pid_counter = IDManager_init._workpiece_pid_counter
    /\ _tool_pid_base = IDManager_init._tool_pid_base
    /\ _mid_counter = IDManager_init._mid_counter
    /\ _rigid_mid_counter = IDManager_init._rigid_mid_counter
    /\ _part_to_material = IDManager_init._part_to_material
    /\ _part_to_section = IDManager_init._part_to_section
    /\ _material_preset_to_mid = IDManager_init._material_preset_to_mid
    /\ _rigid_constraint_to_mid = IDManager_init._rigid_constraint_to_mid
    /\ id_last = NoIdCall
    /\ alloc_hist = [a \in {"material", "rigid"} |-> EmptyDict]
    /\ pid_prev = NoIdCall
    /\ pid_calls = 0
    /\ curve_id_counter = BaseCurveId
    /\ leader_curves = EmptyDict
    /\ leader_motion_data = EmptyDict
    /\ issued = <<>>
    /\ last = NoCall
    /\ set_pc = "idle"
    /\ tool_configs = <<>>
    /\ sorted_configs = <<>>
    /\ set_idx = 0
    /\ results = EmptyDict
    /\ set_log = <<>>
    /\ fn_call = NoLibCall
    /\ Directions_attrs = Directions_class
    /\ attr_last = NoLibCall
    /\ attr_ops = 0
    /\ steps = AnalysisConfig_init.steps
    /\ symmetry_planes = AnalysisConfig_init.symmetry_planes
    /\ uuid_counter = AnalysisConfig_init.uuid_counter
    /\ an_last = NoAnCall

\* the arguments of get_tool_pid: step orders start at 1, tool indices at 0;
\* the first and the last MaxEdgeTools tools of a step are numbered
StepOrders == 1..MaxStepOrder
ToolIndices ==
    {t \in 0..MaxToolIndex : t < MaxEdgeTools \/ t > MaxToolIndex - MaxEdgeTools}

NextIds ==
    \/ GetNextWorkpiecePid
    \/ GetNextMid
    \/ GetNextRigidMid
    \/ \E k \in MaterialPresets : GetOrCreateMaterialId(k)
    \/ \E k \in RigidConstraints : GetOrCreateRigidMaterialId(k)

NextRegistries ==
    \/ \E pid \in RegistryPids, mid \in RegistryMids : RegisterPartMaterial(pid, mid)
    \/ \E pid \in RegistryPids, secid \in RegistrySecids : RegisterPartSection(pid, secid)
    \/ \E pid \in RegistryPids : GetPartMaterial(pid)
    \/ \E pid \in RegistryPids : GetPartSection(pid)

\* reference abscissae: 0, 1, 2, ... and the same with the last one repeated
ReferenceTimes(n) ==
    {[k \in 1..n |-> Milli(k - 1)],
     [k \in 1..n |-> IF k = n THEN Milli(n - 2) ELSE Milli(k - 1)]}

\* reference ordinates 0, 2, 4, 6 in any order, thresholds 1, 3, 4 and 7
ReferenceValues == {Milli(0), Milli(2), Milli(4), Milli(6)}
Thresholds == {Milli(1), Milli(3), Milli(4), Milli(7)}

\* create_threshold_following_curve(lcid, threshold, DataFrame{a1: t_ref, o1: y_ref})
\* (one call is observed per behaviour: the function has no state)
CreateThresholdFollowingCurve(t_ref, y_ref, threshold) ==
    /\ fn_call = NoLibCall
    /\ fn_call' = [op |-> "create_threshold_following_curve",
                   t_ref |-> t_ref, y_ref |-> y_ref, threshold |-> threshold,
                   r |-> create_threshold_following_curve(
                             BaseCurveId + 1, threshold, [a1 |-> t_ref, o1 |-> y_ref])]
    /\ UNCHANGED <<Directions_attrs, attr_last, attr_ops>>
    /\ UNCHANGED mgr_vars
    /\ UNCHANGED id_vars
    /\ UNCHANGED an_vars

NextThresholdCurve ==
    \E n \in 2..MaxSamples :
        \E t_ref \in ReferenceTimes(n), y_ref \in [1..n -> ReferenceValues],
           threshold \in Thresholds :
            CreateThresholdFollowingCurve(t_ref, y_ref, threshold)

\* the characters of the strings handed to Direction.from_string
DirectionChars == {"+", "-", "*", "x", "y", "Z", "w", " "}

DirectionStrings == UNION {[1..n -> DirectionChars] : n \in 0..MaxStringLen}

\* Direction.from_string(direction_str), then dof_number and scale_factor of the result
\* (one call is observed per behaviour: the function has no state)
FromString(direction_str) ==
    /\ fn_call = NoLibCall
    /\ \E r \in {from_string(direction_str)} :
          fn_call' = [op |-> "Direction.from_string", direction_str |-> direction_str,
                      r |-> r,
                      dof_number |-> IF r.ok THEN Direction_dof_number(r) ELSE 0,
                      scale_factor |-> IF r.ok THEN Direction_scale_factor(r) ELSE 0]
    /\ UNCHANGED <<Directions_attrs, attr_last, attr_ops>>
    /\ UNCHANGED mgr_vars
    /\ UNCHANGED id_vars
    /\ UNCHANGED an_vars

NextFromString == \E direction_str \in DirectionStrings : FromString(direction_str)

\* ramp times and hold times in milliseconds
RampTimes == {1, 2, 5, 20, 500, 1000, 3000}
HoldTimes == {0, 1, 10000}

\* one call of generate_half_cosine_curve
GenerateHalfCosineCurve(ramp_time, hold_time, num_pts) ==
    /\ fn_call = NoLibCall
    /\ fn_call' = [op |-> "generate_half_cosine_curve", ramp_time |-> ramp_time,
                   hold_time |-> hold_time, num_pts |-> num_pts,
                   r |-> generate_half_cosine_curve_num_pts(ramp_time, hold_time, num_pts)]
    /\ UNCHANGED <<Directions_attrs, attr_last, attr_ops>>
    /\ UNCHANGED mgr_vars
    /\ UNCHANGED id_vars
    /\ UNCHANGED an_vars

NextHalfCosine ==
    \E ramp_time \in RampTimes, hold_time \in HoldTimes, num_pts \in 2..MaxNumPts :
        GenerateHalfCosineCurve(ramp_time, hold_time, num_pts)

\* Direction.from_string(str(d)) for a preset d of the class Directions
StrRoundTrip(d) ==
    /\ fn_call = NoLibCall
    /\ \E s \in {Direction_str(d)} :
          fn_call' = [op |-> "from_string_of_str", d |-> d, s |-> s, r |-> from_string(s)]
    /\ UNCHANGED <<Directions_attrs, attr_last, attr_ops>>
    /\ UNCHANGED mgr_vars
    /\ UNCHANGED id_vars
    /\ UNCHANGED an_vars

NextStr ==
    \/ \E direction_str \in DirectionStrings : FromString(direction_str)
    \/ \E name \in PresetNames : StrRoundTrip(Directions_class[name])

\* the names and values of the attribute statements made on Directions
AttrNames == PresetNames \cup {"_initialized"}
AttrValues == {Direction("x", 1), Direction("z", -1), Bool(TRUE), Bool(FALSE)}

\* Directions.<name> = value
SetAttr(name, value) ==
    /\ attr_ops < MaxAttrOps
    /\ attr_ops' = attr_ops + 1
    /\ \E r \in {Directions_setattr(Directions_attrs, name, value)} :
          /\ Directions_attrs' = r.attrs
          /\ attr_last' = [op |-> "setattr", name |-> name, value |-> value,
                           outcome |-> r.outcome]
    /\ UNCHANGED fn_call
    /\ UNCHANGED mgr_vars
    /\ UNCHANGED id_vars
    /\ UNCHANGED an_vars

\* del Directions.<name>
DelAttr(name) ==
    /\ attr_ops < MaxAttrOps
    /\ attr_ops' = attr_ops + 1
    /\ \E r \in {Directions_delattr(Directions_attrs, name)} :
          /\ Directions_attrs' = r.attrs
          /\ attr_last' = [op |-> "delattr", name |-> name, outcome |-> r.outcome]
    /\ UNCHANGED fn_call
    /\ UNCHANGED mgr_vars
    /\ UNCHANGED id_vars
    /\ UNCHANGED an_vars

NextDirections ==
    \/ \E name \in AttrNames, value \in AttrValues : SetAttr(name, value)
    \/ \E name \in AttrNames : DelAttr(name)

NextVelocityLimit ==
    \/ \E config \in VelocityLeaderConfigs : CreateToolCondition(config)
    \/ \E velocity_config \in VelocityLimitConfigs : CalculateVelocityLimit(velocity_config)
    \/ TakeResult

NextPids ==
    \E s \in StepOrders, t \in ToolIndices : GetToolPid(s, t)

Next ==
    \/ \E config \in ConfigSpace : CreateToolCondition(config)
    \/ \E configs \in ConfigLists : CreateToolSetConditions(configs)
    \/ SetLoopIteration
    \/ TakeResult

vars == <<mgr_vars, id_vars, lib_vars, an_vars>>

\* the ToolConditionManager of one deck-generation run
Spec == Init /\ [][Next]_vars

\* the counters and memoized allocators of the IDManager of one run
SpecIds == Init /\ [][NextIds]_vars

\* the part registries of the IDManager of one run
SpecRegistries == Init /\ [][NextRegistries]_vars

\* leaders registered by create_tool_condition, velocity limits derived from them
SpecVelocityLimit == Init /\ [][NextVelocityLimit]_vars

\* create_threshold_following_curve on reference curves of up to MaxSamples samples
SpecThresholdCurve == Init /\ [][NextThresholdCurve]_vars

\* Direction.from_string on strings of up to MaxStringLen characters
SpecFromString == Init /\ [][NextFromString]_vars

\* the symmetry planes of a state.AnalysisConfig
SpecDeck == Init /\ [][NextDeck]_vars

SpecSymmetry == Init /\ [][NextSymmetry]_vars

\* the steps of a state.AnalysisConfig
SpecSteps == Init /\ [][NextSteps]_vars

\* the steps of a core.config.AnalysisConfig
SpecConfigSteps == Init /\ [][NextConfigSteps]_vars

\* calls of generate_half_cosine_curve
SpecHalfCosine == Init /\ [][NextHalfCosine]_vars

\* strings parsed to directions and directions written as strings and parsed again
SpecStr == Init /\ [][NextStr]_vars

\* attribute assignments and deletions on the class Directions after module initialisation
SpecDirections == Init /\ [][NextDirections]_vars

\* the tool-PID computation of the IDManager of one run
SpecPids == Init /\ [][NextPids]_vars

----------------------------------------------------------------------------
(* Properties *)

\* the predicate _sort_configs_by_dependency partitions by
IsFollower(config) ==
    config.condition_type = "forced_motion" /\ config.following_config # None

IsNotFollower(config) == ~IsFollower(config)

\* a forced-motion config without a following spec of part pid
IsLeaderConfigOf(config, pid) ==
    /\ config.condition_type = "forced_motion"
    /\ config.following_config = None
    /\ config.part_id = pid

IsVelocityLimited(config) ==
    config.condition_type = "load_application" /\ config.velocity_limit_config # None

\* C1: the curve-ID counter never decreases, and every curve ID issued by a
\* step (whether the call returns or raises) is strictly greater than every
\* ID issued before it, so no ID is issued twice.
C1_CurveIdsStrictlyIncrease ==
    [][/\ curve_id_counter' >= curve_id_counter
       /\ Len(issued') >= Len(issued)
       /\ SubSeq(issued', 1, Len(issued)) = issued
       /\ \A k \in (Len(issued) + 1)..Len(issued') :
             \A j \in 1..(k - 1) : issued'[j] < issued'[k]]_vars

\* a call raised after it had consumed IDs, later than two other IDs
C1_Witness ==
    /\ last.called
    /\ last.outcome # "ok"
    /\ last.ids # <<>>
    /\ Len(issued) >= 3

C3_Claimed_LeaderBeforeVelocityLimit ==
    \A k \in 1..Len(set_log) :
        LET v == set_log[k].config
            leader == Val(v.velocity_limit_config).leader_part_id
        IN  IsVelocityLimited(v) =>
                \A i \in 1..Len(tool_configs) :
                    IsLeaderConfigOf(tool_configs[i], leader) =>
                        \E j \in 1..(k - 1) : set_log[j].config = tool_configs[i]

\* the index in configs of its k-th config that is not a follower
NonFollowerIndex(configs, k) ==
    LET I == {i \in 1..Len(configs) :
                 /\ IsNotFollower(configs[i])
                 /\ Cardinality({j \in 1..i : IsNotFollower(configs[j])}) = k}
    IN  IF I = {} THEN 0 ELSE CHOOSE i \in I : TRUE

\* C3 as amended: a load-application config with a velocity-limit spec keeps
\* its input position among the non-following configs: a forced-motion
\* config of its leader part is processed before it exactly when it stands
\* before it in the input list; processed with position limits while the
\* leader has no registered kinematics, it raises the dependency error.
C3_VelocityLimitKeepsInputPosition ==
    \A k \in 1..Len(set_log) :
        LET v == set_log[k].config
            leader == Val(v.velocity_limit_config).leader_part_id
            at == NonFollowerIndex(tool_configs, k)
        IN  IsVelocityLimited(v) =>
                /\ at # 0
                /\ tool_configs[at] = v
                /\ \A i \in 1..Len(tool_configs) :
                       IsLeaderConfigOf(tool_configs[i], leader) =>
                           ((\E j \in 1..(k - 1) : set_log[j].config = tool_configs[i])
                            <=> (\E h \in 1..(at - 1) : tool_configs[h] = tool_configs[i]))
                /\ (k = Len(set_log) /\ v.position_limits # None
                    /\ leader \notin DOMAIN leader_motion_data)
                       => set_log[k].outcome = "dependency_error"

\* a velocity-limited config given in front of its leader raised the dependency error
C3_Witness ==
    /\ set_pc = "raised"
    /\ Len(tool_configs) = 2
    /\ IsVelocityLimited(tool_configs[1])
    /\ IsLeaderConfigOf(tool_configs[2],
                        Val(tool_configs[1].velocity_limit_config).leader_part_id)
    /\ set_log[1].config = tool_configs[1]
    /\ set_log[1].outcome = "dependency_error"

\* C4: a load-application call with a velocity-limit spec whose leader part
\* has no registered kinematics raises the dependency error, with or without
\* position limits (a load-application call leaves the registry as it was).
C4_VelocityLimitWithoutLeaderRaises ==
    (/\ last.called
     /\ IsVelocityLimited(last.config)
     /\ Val(last.config.load_amount) > 0
     /\ Val(last.config.velocity_limit_config).leader_part_id
            \notin DOMAIN leader_motion_data)
        => last.outcome = "dependency_error"

\* C5: a forced-motion call with a following spec whose leader part has no
\* registered leader curve raises the dependency error, consumes no curve ID
\* and changes neither leader registry.
C5_MissingLeaderRaisesWithoutEffect ==
    [][(/\ last'.called
        /\ IsFollower(last'.config)
        /\ Val(last'.config.following_config).leader_pid \notin DOMAIN leader_curves)
           => /\ last'.outcome = "dependency_error"
              /\ last'.ids = <<>>
              /\ UNCHANGED <<curve_id_counter, leader_curves, leader_motion_data, issued>>]_vars

\* a follower was refused for its missing leader after other curve IDs had been issued
C5_Witness ==
    /\ last.called
    /\ IsFollower(last.config)
    /\ last.outcome = "dependency_error"
    /\ Val(last.config.following_config).leader_pid \notin DOMAIN leader_curves
    /\ curve_id_counter > BaseCurveId
    /\ DOMAIN leader_curves # {}

\* the curve IDs of the configs processed so far, in processing order
RECURSIVE LogIds(_)
LogIds(log) == IF log = <<>> THEN <<>> ELSE Head(log).ids \o LogIds(Tail(log))

\* C6: create_tool_set_conditions processes the stable partition of its
\* input (the configs that are not forced motion with a following spec in
\* input order, then those that are, in input order), each config once and no
\* other, up to the config that raises if one does; curve IDs are assigned in
\* that order.
C6_StablePartitionOrder ==
    LET partition == SelectSeq(tool_configs, IsNotFollower)
                     \o SelectSeq(tool_configs, IsFollower)
        ids == LogIds(set_log)
    IN  /\ set_pc # "idle" => sorted_configs = partition
        /\ Len(set_log) <= Len(partition)
        /\ \A k \in 1..Len(set_log) : set_log[k].config = partition[k]
        /\ set_pc = "returned" => Len(set_log) = Len(tool_configs)
        /\ set_pc = "loop" => Len(set_log) = set_idx
        /\ \A k \in 1..(Len(set_log) - 1) : set_log[k].outcome = "ok"
        /\ \A i, j \in 1..Len(ids) : i < j => ids[i] < ids[j]

\* a list given as <<follower, non-follower>> was reordered and processed to the end
C6_Witness ==
    /\ set_pc = "returned"
    /\ Len(tool_configs) = 2
    /\ IsFollower(tool_configs[1])
    /\ IsNotFollower(tool_configs[2])
    /\ Len(set_log) = 2
    /\ set_log[1].ids # <<>>
    /\ set_log[2].ids # <<>>

\* C7: for both memoized allocators, the is-new flag is True on the first
\* call for a key and False on every later call, every call for a key returns
\* the same ID, and two keys of one allocator never share an ID.
C7_MemoizedAllocation ==
    \A a \in DOMAIN alloc_hist :
        LET h == alloc_hist[a] IN
        /\ \A k \in DOMAIN h :
               /\ h[k].first_new = TRUE
               /\ h[k].later_new \subseteq {FALSE}
               /\ Cardinality(h[k].ids) = 1
        /\ \A k1, k2 \in DOMAIN h : k1 # k2 => h[k1].ids \cap h[k2].ids = {}

\* both keys of both allocators were requested, one of them repeatedly, with
\* direct allocations from the counter in between
C7_Witness ==
    /\ DOMAIN alloc_hist["material"] = MaterialPresets
    /\ DOMAIN alloc_hist["rigid"] = RigidConstraints
    /\ \E k \in MaterialPresets : alloc_hist["material"][k].later_new # {}
    /\ \E k \in RigidConstraints : alloc_hist["rigid"][k].later_new # {}
    /\ _mid_counter > IDManager_init._mid_counter + Cardinality(MaterialPresets)

\* C8: two get_tool_pid calls with distinct (step_order, tool_index) pairs,
\* step_order >= 1 and tool_index in 0..98, return different PIDs, and two
\* calls with the same pair return the same PID.
C8_ToolPidCollisionFree ==
    (pid_prev.op = "get_tool_pid" /\ id_last.op = "get_tool_pid") =>
        ((pid_prev.step_order = id_last.step_order
          /\ pid_prev.tool_index = id_last.tool_index)
         <=> pid_prev.ret = id_last.ret)

\* the last tool of step 1 and the first tool of step 2 were both numbered
C8_Witness ==
    /\ pid_prev.op = "get_tool_pid"
    /\ id_last.op = "get_tool_pid"
    /\ pid_prev.step_order = 1
    /\ pid_prev.tool_index = MaxToolIndex
    /\ id_last.step_order = 2
    /\ id_last.tool_index = 0

C10_DocumentedToolPids ==
    id_last.op = "get_tool_pid" =>
        /\ (id_last.step_order = 1 /\ id_last.tool_index = 0) => id_last.ret = 1101
        /\ (id_last.step_order = 1 /\ id_last.tool_index = 1) => id_last.ret = 1102
        /\ (id_last.step_order = 2 /\ id_last.tool_index = 0) => id_last.ret = 1201

----------------------------------------------------------------------------
\* C11 (as claimed): the part registries are set-once: once a lookup returns
\* a value for a PID, no later call changes what the lookup returns for it
C11_RegistriesSetOnce ==
    [][\A pid \in RegistryPids :
          /\ get_part_material(IdSelf, pid) # None
                => get_part_material(IdSelf, pid)' = get_part_material(IdSelf, pid)
          /\ get_part_section(IdSelf, pid) # None
                => get_part_section(IdSelf, pid)' = get_part_section(IdSelf, pid)]_vars

----------------------------------------------------------------------------
\* C12: after a successful forced-motion call without a following spec for
\* part p, the leader curve of p is the stroke curve the call created at the
\* curve ID it allocated, and the leader kinematics of p are the control
\* type, the requested amount and the motion time (the config's if given,
\* else the global default), which is also the ramp time of that curve;
\* whatever p had registered before is replaced
C12_LeaderRegistered ==
    (last.called /\ last.outcome = "ok"
       /\ last.config.condition_type = "forced_motion"
       /\ last.config.following_config = None) =>
    LET config == last.config
        pid == config.part_id
        mct == config.motion_control_type
        amount == IF mct = "displacement" THEN config.displacement_amount
                  ELSE config.velocity_amount
        motion_time == IF config.motion_time # None THEN Val(config.motion_time)
                       ELSE GlobalMotionTimeMilli
    IN  /\ Len(last.ids) = 1
        /\ pid \in DOMAIN leader_curves
        /\ leader_curves[pid].lcid = last.ids[1]
        /\ last.result.curves = (mct :> leader_curves[pid])
        /\ pid \in DOMAIN leader_motion_data
        /\ leader_motion_data[pid] =
               [type |-> mct, amount |-> amount, motion_time |-> motion_time]
        /\ leader_curves[pid].a1[Len(leader_curves[pid].a1) - 1] = motion_time

\* a second call has registered part 1 with its own motion time at curve ID 9002
C12_Witness ==
    /\ last.called /\ last.outcome = "ok"
    /\ last.config.condition_type = "forced_motion"
    /\ last.config.following_config = None
    /\ last.config.part_id = 1
    /\ last.config.motion_time = Some(2000)
    /\ last.ids = <<BaseCurveId + 2>>
    /\ leader_motion_data[1].motion_time = 2000

----------------------------------------------------------------------------
\* C13: for a velocity-limit spec {leader L, multiplier m} whose leader is
\* registered, the derived limit is |peak| * m, peak being
\* (pi / (2 * motion_time)) * amount for a displacement-controlled leader and
\* the amount for a velocity-controlled one, both read from L's registry
\* entry; displacement 50 over 0.5 with multiplier 1.1 gives about 172.79
\* (to the precision of PiMilli); the limit is not negative when m >= 0
C13_VelocityLimitFormula ==
    (/\ fn_call.op = "_calculate_velocity_limit_from_leader"
     /\ fn_call.velocity_config.leader_part_id \in DOMAIN fn_call.leader_motion_data) =>
    LET m == fn_call.velocity_config.limit_multiplier
        L == fn_call.leader_motion_data[fn_call.velocity_config.leader_part_id]
        peak == IF L.type = "displacement"
                THEN (PiMilli * Val(L.amount)) \div (2 * L.motion_time)
                ELSE Val(L.amount)
        magnitude == IF peak < 0 THEN 0 - peak ELSE peak
    IN  /\ L.type \in {"displacement", "velocity"}
        /\ fn_call.r.ok
        /\ fn_call.r.value = (magnitude * m) \div 1000
        /\ m >= 0 => fn_call.r.value >= 0
        /\ (L = [type |-> "displacement", amount |-> Some(Milli(50)), motion_time |-> 500]
              /\ m = 1100)
           => (fn_call.r.value >= 172790 - 25 /\ fn_call.r.value <= 172790 + 25)

\* the limit derived from a leader registered with displacement -4.0, multiplier 1.1
C13_Witness ==
    /\ fn_call.op = "_calculate_velocity_limit_from_leader"
    /\ fn_call.velocity_config = [leader_part_id |-> 1, limit_multiplier |-> 1100]
    /\ 1 \in DOMAIN fn_call.leader_motion_data
    /\ fn_call.leader_motion_data[1] =
           [type |-> "displacement", amount |-> Some(Milli(-4)), motion_time |-> 500]
    /\ fn_call.r.ok
    /\ fn_call.r.value > 0

----------------------------------------------------------------------------
\* C14 (as claimed): create_tool_condition raises a configuration error for
\* every config that carries a following spec without being a forced-motion
\* config with motion-control type displacement
C14_MisplacedFollowingSpecRejected ==
    (/\ last.called
     /\ last.config.following_config # None
     /\ ~(/\ last.config.condition_type = "forced_motion"
          /\ last.config.motion_control_type = "displacement"))
    => last.outcome = "config_error"

----------------------------------------------------------------------------
\* a forced-motion config with neither following spec nor motion-control
\* type, or a config whose condition type is neither forced motion nor load
\* application
IsUnrecognised(config) ==
    \/ /\ config.condition_type = "forced_motion"
       /\ config.following_config = None
       /\ config.motion_control_type \notin {"displacement", "velocity"}
    \/ config.condition_type \notin {"forced_motion", "load_application"}

\* C15: create_tool_condition raises the configuration error for a
\* forced-motion config without following spec and motion-control type and
\* for a config of an unknown condition type; the call consumes no curve ID
\* and writes no registry entry
C15_UnrecognisedConfigRaisesWithoutEffect ==
    [][(last'.called /\ IsUnrecognised(last'.config))
           => /\ last'.outcome = "config_error"
              /\ last'.ids = <<>>
              /\ last'.result = EmptyResult
              /\ UNCHANGED <<curve_id_counter, leader_curves, leader_motion_data, issued>>]_vars

\* an unrecognised config was refused after a leader had been registered
C15_Witness ==
    /\ last.called
    /\ IsUnrecognised(last.config)
    /\ last.outcome = "config_error"
    /\ curve_id_counter > BaseCurveId
    /\ DOMAIN leader_motion_data # {}

----------------------------------------------------------------------------
\* the curve IDs a boundary-condition keyword refers to
ReferencedCurveIds(kw) ==
    IF kw.kw = "ConstrainedRigidBodyStoppers"
    THEN {IF kw.lcmax < 0 THEN 0 - kw.lcmax ELSE kw.lcmax,
          IF kw.lcmin < 0 THEN 0 - kw.lcmin ELSE kw.lcmin}
         \cup (IF kw.lcvmx = None THEN {} ELSE {Val(kw.lcvmx)})
    ELSE {kw.lcid}

\* C16: in a successful create_tool_condition result every curve ID a
\* condition refers to (in absolute value for the stopper's max and min) is
\* the ID of a curve of the same result, the curves have distinct IDs, and
\* there is 1 curve for forced motion and following, and for load
\* application 1 curve, 3 with position limits, 4 with position limits and
\* a velocity-limit spec; the stopper refers to exactly the max, min and
\* velocity-limit curves and to the axis of the direction without its sign
C16_ResultReferencesItsCurves ==
    (last.called /\ last.outcome = "ok") =>
    LET config == last.config
        curves == last.result.curves
        conditions == last.result.conditions
        CurveIds == {curves[k].lcid : k \in DOMAIN curves}
        limited == config.condition_type = "load_application"
                   /\ config.position_limits # None
        velocity_limited == limited /\ config.velocity_limit_config # None
    IN  /\ \A c \in DOMAIN conditions : ReferencedCurveIds(conditions[c]) \subseteq CurveIds
        /\ Cardinality(CurveIds) = Cardinality(DOMAIN curves)
        /\ Cardinality(DOMAIN curves) =
               IF velocity_limited THEN 4 ELSE IF limited THEN 3 ELSE 1
        /\ ("limits" \in DOMAIN conditions) <=> limited
        /\ limited =>
              /\ conditions["limits"].kw = "ConstrainedRigidBodyStoppers"
              /\ conditions["limits"].lcmax = 0 - curves["limit_max"].lcid
              /\ conditions["limits"].lcmin = 0 - curves["limit_min"].lcid
              /\ conditions["limits"].lcvmx =
                     IF velocity_limited THEN Some(curves["velocity_limit"].lcid) ELSE None
              /\ \E sign \in {"+", "-"}, axis \in AxisValues :
                     /\ config.direction = Str(<<sign, axis>>)
                     /\ conditions["limits"].dir = Axis_dof_number(axis)

\* a load application with position limits and a velocity-limit spec returned four curves
C16_Witness ==
    /\ last.called /\ last.outcome = "ok"
    /\ last.config.condition_type = "load_application"
    /\ last.config.position_limits # None
    /\ last.config.velocity_limit_config # None
    /\ DOMAIN last.result.curves = {"preload", "limit_max", "limit_min", "velocity_limit"}
    /\ DOMAIN last.result.conditions = {"load", "limits"}

----------------------------------------------------------------------------
\* the threshold lies between y[i] and y[i+1], whichever of the two is larger
Brackets(y, threshold, i) ==
    \/ y[i] <= threshold /\ threshold <= y[i + 1]
    \/ y[i + 1] <= threshold /\ threshold <= y[i]

\* C17 (as claimed): create_threshold_following_curve returns a curve exactly
\* when some pair of consecutive reference samples has the threshold between
\* them, whichever of the two is larger, and raises the domain error exactly
\* when there is no such pair
C17_CurveIffBracketed ==
    fn_call.op = "create_threshold_following_curve" =>
    LET bracketed == \E i \in 1..(Len(fn_call.y_ref) - 1) :
                         Brackets(fn_call.y_ref, fn_call.threshold, i)
    IN  /\ fn_call.r.ok <=> bracketed
        /\ ~fn_call.r.ok <=> fn_call.r.error = "threshold_error"

----------------------------------------------------------------------------
StrictlyIncreasing(t) == \A k \in 1..(Len(t) - 1) : t[k] < t[k + 1]

\* the samples of curve follow the reference (t, y) from the crossing time
\* t_sw on: sorted by time, 0 up to t_sw, y(t) - threshold after it, the
\* point (t_sw, 0) exactly once, inserted when t_sw is not a reference time
FollowsFrom(curve, t, y, threshold, t_sw) ==
    /\ curve.nan = {}
    /\ Len(curve.a1) = Len(curve.o1)
    /\ \A k \in 1..(Len(curve.a1) - 1) : curve.a1[k] <= curve.a1[k + 1]
    /\ \A k \in 1..Len(curve.a1) :
          /\ curve.a1[k] <= t_sw => curve.o1[k] = 0
          /\ curve.a1[k] > t_sw =>
                 \E j \in 1..Len(t) : t[j] = curve.a1[k] /\ curve.o1[k] = y[j] - threshold
    /\ \A j \in 1..Len(t) : \E k \in 1..Len(curve.a1) : curve.a1[k] = t[j]
    /\ Cardinality({k \in 1..Len(curve.a1) : curve.a1[k] = t_sw}) = 1
    /\ Len(curve.a1) = Len(t) + (IF \E j \in 1..Len(t) : t[j] = t_sw THEN 0 ELSE 1)

\* C18 (as claimed): for reference samples with increasing times and a
\* threshold bracketed by some segment (y[i] <= threshold <= y[i+1]),
\* create_threshold_following_curve returns samples sorted by time, 0 at
\* every t <= t_sw and y(t) - threshold at every t > t_sw, t_sw being the
\* linearly interpolated crossing time of the first bracketing segment, with
\* the point (t_sw, 0) present exactly once; every sample has a time
C18_FollowsFromCrossing ==
    (/\ fn_call.op = "create_threshold_following_curve"
     /\ StrictlyIncreasing(fn_call.t_ref)
     /\ \E i \in 1..(Len(fn_call.y_ref) - 1) :
            /\ fn_call.y_ref[i] <= fn_call.threshold
            /\ fn_call.threshold <= fn_call.y_ref[i + 1]) =>
    LET t == fn_call.t_ref
        y == fn_call.y_ref
        threshold == fn_call.threshold
        I == {i \in 1..(Len(y) - 1) : y[i] <= threshold /\ threshold <= y[i + 1]}
        i == CHOOSE i \in I : \A j \in I : i <= j
    IN  /\ fn_call.r.ok
        /\ fn_call.r.curve.nan = {}
        /\ y[i + 1] # y[i] =>
               FollowsFrom(fn_call.r.curve, t, y, threshold,
                           t[i] + ((threshold - y[i]) * (t[i + 1] - t[i]))
                                      \div (y[i + 1] - y[i]))

----------------------------------------------------------------------------
\* s is a sign and an axis letter of either case
IsSignAndAxis(s) ==
    /\ Len(s) = 2
    /\ s[1] \in {"+", "-"}
    /\ s[2] \in {"x", "y", "z", "X", "Y", "Z"}

\* the DOF number and the scale factor the axis letter and the sign stand for
DofOf(c) == IF c \in {"x", "X"} THEN 1 ELSE IF c \in {"y", "Y"} THEN 2 ELSE 3
ScaleOf(c) == IF c = "+" THEN 1 ELSE -1

\* C19 (as claimed): Direction.from_string(s) returns a Direction exactly
\* when s has exactly 2 characters, a sign '+' or '-' and an axis letter
\* x, y or z of either case; every other string raises a parse error
C19_Claimed_ExactlyTwoCharacters ==
    fn_call.op = "Direction.from_string" =>
        (fn_call.r.ok <=> IsSignAndAxis(fn_call.direction_str))

\* C19 (amended): Direction.from_string(s) returns a Direction exactly when
\* s, without its leading and trailing whitespace, has exactly 2 characters,
\* a sign '+' or '-' and an axis letter x, y or z of either case; the result
\* has dof_number 1/2/3 for x/y/z and scale_factor +1/-1 for the sign; every
\* other string raises a parse error
C19_FromStringAfterStrip ==
    fn_call.op = "Direction.from_string" =>
    LET s == fn_call.direction_str
        P == {i \in 1..(Len(s) - 1) :
                 /\ IsSignAndAxis(<<s[i], s[i + 1]>>)
                 /\ \A k \in 1..Len(s) : (k < i \/ k > i + 1) => s[k] \in {" ", "\t", "\n"}}
    IN  /\ fn_call.r.ok <=> P # {}
        /\ \A i \in P : /\ fn_call.dof_number = DofOf(s[i + 1])
                        /\ fn_call.scale_factor = ScaleOf(s[i])
        /\ ~fn_call.r.ok => fn_call.r = ParseError

\* " -Z" was parsed to DOF 3 with scale factor -1
C19_Witness ==
    /\ fn_call.op = "Direction.from_string"
    /\ fn_call.direction_str = <<" ", "-", "Z">>
    /\ fn_call.r.ok
    /\ fn_call.dof_number = 3
    /\ fn_call.scale_factor = -1

----------------------------------------------------------------------------
\* C20 (as claimed): after module initialisation, whatever attribute
\* assignments and deletions are made on Directions, every attempt to rebind
\* or delete one of the six presets fails with an error and every preset
\* name denotes its original Direction
C20_PresetsImmutable ==
    /\ \A name \in PresetNames :
          /\ name \in DOMAIN Directions_attrs
          /\ Directions_attrs[name] = Directions_class[name]
    /\ (attr_last.op # "none" /\ attr_last.name \in PresetNames)
          => attr_last.outcome = "attribute_error"

----------------------------------------------------------------------------
\* C21: for each of the six preset directions d, Direction.from_string(str(d))
\* returns a Direction equal to d
C21_StrRoundTrip ==
    fn_call.op = "from_string_of_str" =>
        /\ fn_call.r.ok
        /\ Direction(fn_call.r.axis, fn_call.r.sign) = fn_call.d

\* NEGATIVE_Z was written as "-Z" and parsed again
C21_Witness ==
    /\ fn_call.op = "from_string_of_str"
    /\ fn_call.d = Directions_class["NEGATIVE_Z"]
    /\ fn_call.s = <<"-", "Z">>
    /\ fn_call.r.ok

----------------------------------------------------------------------------
NonDecreasing(q) == \A k \in 1..(Len(q) - 1) : q[k] <= q[k + 1]

\* C22: for ramp_time > 0, hold_time >= 0 and num_pts >= 2,
\* generate_half_cosine_curve returns num_pts + 2 samples; the times and the
\* values are non-decreasing, the values start at 0.0 and are 1.0 at every
\* sample with t >= ramp_time; the last two samples are (ramp_time, 1.0) and
\* (ramp_time + hold_time, 1.0)
C22_HalfCosineShape ==
    fn_call.op = "generate_half_cosine_curve" =>
    LET t == fn_call.r.t
        y == fn_call.r.y
        n == fn_call.num_pts
    IN  /\ Len(t) = n + 2
        /\ Len(y) = n + 2
        /\ NonDecreasing(t)
        /\ NonDecreasing(y)
        /\ y[1] = 0
        /\ \A k \in 1..Len(t) : t[k] >= fn_call.ramp_time => y[k] = Milli(1)
        /\ t[n + 1] = fn_call.ramp_time
        /\ y[n + 1] = Milli(1)
        /\ t[n + 2] = fn_call.ramp_time + fn_call.hold_time
        /\ y[n + 2] = Milli(1)

\* a ramp of 5 samples over 1 ms without hold: the ramp ends at (1 ms, 1.0)
\* and the two hold samples repeat it
C22_Witness ==
    /\ fn_call.op = "generate_half_cosine_curve"
    /\ fn_call.ramp_time = 1
    /\ fn_call.hold_time = 0
    /\ fn_call.num_pts = 5
    /\ fn_call.r.t = <<0, 0, 0, 0, 1, 1, 1>>
    /\ fn_call.r.y = <<0, 146, 500, 854, 1000, 1000, 1000>>

----------------------------------------------------------------------------
\* C23: after any sequence of add_symmetry_plane and remove_symmetry_plane
\* calls on an AnalysisConfig without symmetry planes, there are at most two
\* symmetry planes, no two of the same plane type; an add that would break
\* either rule returns None and leaves the list as it was
C23_SymmetryPlanesBounded ==
    /\ Len(symmetry_planes) <= 2
    /\ \A i, j \in 1..Len(symmetry_planes) :
          i # j => symmetry_planes[i].plane # symmetry_planes[j].plane
    /\ an_last.op = "add_symmetry_plane" =>
          LET before == an_last.before.symmetry_planes
              breaks == \/ Len(before) >= 2
                        \/ \E i \in 1..Len(before) : before[i].plane = an_last.arg.plane
          IN  IF breaks
              THEN an_last.ret = None /\ symmetry_planes = before
              ELSE /\ an_last.ret # None
                   /\ symmetry_planes = Append(before, Val(an_last.ret))
                   /\ Val(an_last.ret).plane = an_last.arg.plane

\* with the planes yz and xy present, after one plane was removed, an add of
\* the third type zx was refused
C23_Witness ==
    /\ an_last.op = "add_symmetry_plane"
    /\ an_last.arg.plane = "zx"
    /\ an_last.ret = None
    /\ Len(symmetry_planes) = 2
    /\ symmetry_planes[1].plane = "yz"
    /\ symmetry_planes[2].plane = "xy"
    /\ uuid_counter >= 4

----------------------------------------------------------------------------
\* C24 (as claimed): after any sequence of add_step, remove_step,
\* duplicate_step, move_step_up and move_step_down calls on an AnalysisConfig
\* with its default step, steps[i].order is i + 1 for every step (the orders
\* are exactly 1..n); a duplicate stands directly after its source; a call
\* with an unknown id, a move up of the first step and a move down of the
\* last step return False/None and change nothing
C24_StepOrdersAndDuplicatePlace ==
    /\ \A i \in 1..Len(steps) : steps[i].order = i
    /\ an_last.op \in {"remove_step", "duplicate_step", "move_step_up", "move_step_down"} =>
          LET before == an_last.before.steps
              i == IndexOfId(before, an_last.arg)
              refused == \/ i = 0
                         \/ an_last.op = "move_step_up" /\ i = 1
                         \/ an_last.op = "move_step_down" /\ i = Len(before)
          IN  /\ refused =>
                     /\ steps = before
                     /\ IF an_last.op = "duplicate_step"
                        THEN an_last.ret = None
                        ELSE an_last.ret = FALSE
              /\ (an_last.op = "duplicate_step" /\ ~refused) =>
                     /\ an_last.ret # None
                     /\ Len(steps) = Len(before) + 1
                     /\ steps[i + 1].id = Val(an_last.ret).id
                     /\ \A j \in 1..i : steps[j].id = before[j].id
                     /\ \A j \in (i + 1)..Len(before) : steps[j + 1].id = before[j].id


\* C25: a call of create_tool_condition that raises leaves the manager as it
\* was before the call: the curve-ID counter, the leader-curve registry and the
\* leader-kinematics registry are unchanged.
C25_RaiseLeavesNoTrace ==
    [][(last'.called /\ last'.outcome # "ok")
           => UNCHANGED <<curve_id_counter, leader_curves, leader_motion_data>>]_vars


\* C26: a call for a following config or a load-application config leaves both
\* leader registries as they were; a call that changes a registry is a
\* non-following forced-motion call and changes the entry of its own part
\* only; the two registries always hold the same part IDs.
C26_OnlyLeadersWriteRegistries ==
    /\ [](DOMAIN leader_curves = DOMAIN leader_motion_data)
    /\ [][/\ (last'.called /\ (IsFollower(last'.config)
                               \/ last'.config.condition_type = "load_application"))
              => UNCHANGED <<leader_curves, leader_motion_data>>
          /\ <<leader_curves, leader_motion_data>>' # <<leader_curves, leader_motion_data>>
              => /\ last'.called
                 /\ IsLeaderConfigOf(last'.config, last'.config.part_id)
                 /\ \A pid \in DOMAIN leader_curves \ {last'.config.part_id} :
                        /\ pid \in DOMAIN leader_curves'
                        /\ leader_curves'[pid] = leader_curves[pid]
                        /\ leader_motion_data'[pid] = leader_motion_data[pid]
                 /\ DOMAIN leader_curves' = DOMAIN leader_curves \cup {last'.config.part_id}]_vars

\* a follower and a load-application config were processed after their leader
\* was registered, inside one create_tool_set_conditions call
C26_Witness ==
    /\ last.called
    /\ last.outcome = "ok"
    /\ DOMAIN leader_curves # {}
    /\ \E i, j \in 1..Len(set_log) :
          /\ IsFollower(set_log[i].config) /\ set_log[i].outcome = "ok"
          /\ set_log[j].config.condition_type = "load_application"
          /\ set_log[j].outcome = "ok"
          /\ set_log[i].config.part_id \notin DOMAIN leader_curves


\* the curve IDs of the curves a returned mapping holds
ResultCurveIds(res) ==
    UNION {{res[name].curves[k].lcid : k \in DOMAIN res[name].curves} : name \in DOMAIN res}

\* C27: the mapping create_tool_set_conditions returns has one entry per input
\* config, and every curve ID the call consumed belongs to a curve of the
\* mapping.
C27_ResultHoldsEveryConfig ==
    set_pc = "returned"
        => /\ Cardinality(DOMAIN results) = Len(tool_configs)
           /\ Range(LogIds(set_log)) \subseteq ResultCurveIds(results)


\* C28: create_tool_condition with a Direction object as direction has the
\* outcome it has with the string form of that object in the same manager
\* state: it succeeds when the string succeeds, with the same curve IDs and
\* the same curves and conditions (DOF and axis numbers, signed scale factors).
C28_DirectionObjectAsString ==
    [][(~last.called /\ last'.called /\ last'.config.direction.type = "Direction")
           => \E r \in {create_tool_condition(
                            Self, [last'.config EXCEPT
                                      !.direction = Str(Direction_str(@))])} :
                 /\ last'.outcome = r.outcome
                 /\ last'.result = r.result
                 /\ last'.ids = NewIds(r)]_vars


\* the material keywords of a deck that define material ID mid
DefinitionsOf(deck, mid) ==
    {i \in 1..Len(deck.material_keywords) :
        /\ deck.material_keywords[i].kw \in {"Mat024", "Mat020"}
        /\ deck.material_keywords[i].mid = mid}

\* the Part keywords of a deck
PartsOf(deck) == {kw \in Range(deck.part_keywords) : kw.kw = "Part"}

\* C29: in a deck that generate produced, every material ID of a Part keyword
\* is defined by exactly one material keyword; the Parts of workpieces with the
\* same preset key carry the same material ID and that material is the
\* preset's; the Parts of tools with the same rigid constraint pattern carry
\* the same rigid material ID; the part pass leaves both material-ID counters
\* where the material pass left them.
C29_PartMaterialsDefinedOnce ==
    (fn_call.op = "generate" /\ fn_call.deck.outcome = "ok")
        => LET deck == fn_call.deck
               config == fn_call.config
               tools == Enumerate(config.steps, "tools")
               MatOf(mid) ==
                   deck.material_keywords[CHOOSE i \in DefinitionsOf(deck, mid) : TRUE]
           IN  /\ \A part \in PartsOf(deck) : Cardinality(DefinitionsOf(deck, part.mid)) = 1
               /\ \A p1, p2 \in PartsOf(deck) :
                      /\ (p1.pid < 1100 /\ p2.pid < 1100) =>
                             (p1.mid = p2.mid <=> MatOf(p1.mid).lcss = MatOf(p2.mid).lcss)
                      /\ p1.pid < 1100 => MatOf(p1.mid).kw = "Mat024"
                      /\ p1.pid > 1100 => MatOf(p1.mid).kw = "Mat020"
               /\ \A i \in 1..Len(tools) :
                      LET pid == get_tool_pid(IDManager_init, tools[i].order, tools[i].idx)
                      IN  \A part \in PartsOf(deck) :
                              part.pid = pid =>
                                  MatOf(part.mid).constraint = ToolConstraint(tools[i].item)
               /\ LET meshed == SelectSeq(Enumerate(config.steps, "workpieces"),
                                          LAMBDA e : e.item.mesh_id \in config.uploaded_meshes)
                  IN  \A i \in 1..Len(meshed) :
                          \E part \in PartsOf(deck) :
                              /\ part.pid = i
                              /\ MatOf(part.mid).lcss =
                                     PresetLcss(meshed[i].item.material_preset)
               /\ deck.mids_after_parts = deck.mids_after_materials

\* a deck of two steps in which two workpiece Parts share the material of
\* their preset and two tool Parts share the rigid material of their pattern
C29_Witness ==
    /\ fn_call.op = "generate"
    /\ fn_call.deck.outcome = "ok"
    /\ Len(fn_call.config.steps) = 2
    /\ \E p1, p2 \in PartsOf(fn_call.deck) :
          p1.pid < p2.pid /\ p2.pid < 1100 /\ p1.mid = p2.mid
    /\ \E p1, p2 \in PartsOf(fn_call.deck) :
          p1.pid > 1100 /\ p1.pid < p2.pid /\ p1.mid = p2.mid
    /\ \E p1, p2 \in PartsOf(fn_call.deck) : p1.mid # p2.mid /\ p2.pid < 1100 /\ p1.pid < 1100

\* the part IDs the boundary keywords of the tools refer to
BoundaryPids(deck) ==
    {deck.boundary_keywords[i].pid :
        i \in {j \in 1..Len(deck.boundary_keywords) :
                  "pid" \in DOMAIN deck.boundary_keywords[j]}}

\* C30: in a deck that generate produced, every part ID a tool's prescribed
\* motion or rigid-body load refers to is the PID of a Part keyword of the deck.
C30_BoundaryPartsExist ==
    (fn_call.op = "generate" /\ fn_call.deck.outcome = "ok")
        => BoundaryPids(fn_call.deck) \subseteq {part.pid : part \in PartsOf(fn_call.deck)}

====
